---- MODULE Spec2Model ----
(***************************************************************************)
(* Packet-stream transport (os/packet_stream.h): one packet-descriptor     *)
(* queue in shared memory, driven by a Packet_descriptor_transmitter on    *)
(* the producing side and a Packet_descriptor_receiver on the consuming    *)
(* side.  The two sides are separate threads; every step below holds at    *)
(* most one access to the shared block or to a signal, so that all         *)
(* interleavings of the two sides are explored.                            *)
(***************************************************************************)
EXTENDS Integers, Sequences, FiniteSets, TLC

\* Template parameter QUEUE_SIZE of Packet_descriptor_queue (scaled down).
QUEUE_SIZE == 3

\* Width in bits of Genode::off_t and Genode::size_t (scaled down).
WordBits == 5

VARIABLES
    head, tail, queue,          \* the shared members of Packet_descriptor_queue
    tx_wakeup_needed,           \* Packet_descriptor_transmitter::_tx_wakeup_needed
    tx_ready,                   \* signal pending at the transmitter's _tx_ready
    rx_wakeup_needed,           \* Packet_descriptor_receiver::_rx_wakeup_needed
    rx_ready,                   \* signal pending at the receiver's _rx_ready
    ppc, pop, ppkt, pret,       \* producer thread: position, call, argument, result
    add_ret,                    \* result of the last add() of the producer
    cpc, cop, cpkt, cret,       \* consumer thread: position, call, local, result
    fifo,                       \* history: the descriptors added and not yet taken, oldest first
    p_sig, c_sig,               \* signals submitted by the current call
    p_obs, c_obs,               \* what the current call observed of the queue
    p_batch,                    \* what the try_tx calls since the last tx_wakeup observed
    bulk_buffer_offset, bulk_buffer_size,   \* Packet_stream_base layout
    ds_local_base,              \* Packet_stream_base::_ds_local_base
    policy,                     \* SUBMIT_QUEUE_SIZE, ACK_QUEUE_SIZE of the source's and of the sink's policy
    ds_size,                    \* size of the transport dataspace
    stream,                     \* the Packet_stream_base members of source and sink
    pv_packet, pv_ret, pv_pc,   \* packet_valid, packet_content: argument, result, position
    pv_ptr,                     \* packet_content: the pointer returned
    ack_head, ack_tail, ack_queue,  \* the shared members of the acknowledgement queue
    ack_tx_wakeup_needed,       \* _tx_wakeup_needed of the sink's _ack_transmitter
    ack_rx_wakeup_needed,       \* _rx_wakeup_needed of the source's _ack_receiver
    ack_tx_ready,               \* signal pending at the sink's ready_to_ack
    ack_rx_ready,               \* signal pending at the source's ack_avail
    packet_alloc,               \* Packet_stream_source::_packet_alloc: the blocks handed out
    bulk,                       \* the bytes of the bulk buffer, by dataspace offset
    src_held,                   \* descriptors the source has allocated and not yet submitted
    src_acked,                  \* descriptors the source has got back and not yet released
    sink_held,                  \* descriptors the sink has received and not yet acknowledged
    outstanding,                \* history: descriptors returned by alloc_packet and not yet released
    life,                       \* history: per descriptor, the calls it went through and its payload
    s_ret,                      \* the last call of the source's or sink's interface and its result
    sf_ret,                     \* slots_free(): the value computed
    rts_count,                  \* ready_to_submit(count): the argument
    peer_stalled,               \* the consuming peer has stopped taking descriptors for good
    built,                      \* the endpoints (source, sink) constructed so far
    rx_sigh,                    \* a handler is registered as the context of _rx_ready
    waiting,                    \* per endpoint, the blocking call it is suspended in
    released                    \* history: descriptors released, no block allocated over their range since

shm     == <<head, tail, queue>>
txobj   == <<tx_wakeup_needed, tx_ready>>
rxobj   == <<rx_wakeup_needed, rx_ready>>
pthread == <<ppc, pop, ppkt, pret, add_ret>>
cthread == <<cpc, cop, cpkt, cret>>
hist    == <<fifo>>
pghost  == <<p_sig, p_obs, p_batch>>
cghost  == <<c_sig, c_obs>>
base    == <<bulk_buffer_offset, bulk_buffer_size, ds_local_base,
             policy, ds_size, stream>>
pvvars  == <<pv_packet, pv_ret, pv_pc, pv_ptr>>
ackq    == <<ack_head, ack_tail, ack_queue>>
ackobj  == <<ack_tx_wakeup_needed, ack_rx_wakeup_needed, ack_tx_ready, ack_rx_ready>>
slots   == <<sf_ret, rts_count>>
env     == <<peer_stalled, built, rx_sigh, waiting>>
freed   == <<released>>
session == <<ackq, ackobj, packet_alloc, bulk, src_held, src_acked, sink_held,
             outstanding, life, s_ret, slots, env, freed>>
vars    == <<shm, txobj, rxobj, pthread, cthread, hist, pghost, cghost, base, pvvars,
             session>>

-----------------------------------------------------------------------------
(* Packet_descriptor *)

Descriptor(o, s) == [offset |-> o, size |-> s]

\* Packet_descriptor() : _offset(0), _size(0); also a slot after memset 0
DefaultDescriptor == Descriptor(0, 0)

\* the descriptors handed to tx / try_tx
Packet1 == Descriptor(4, 2)
Packet2 == Descriptor(8, 4)
Packets == {Packet1, Packet2}

-----------------------------------------------------------------------------
(* Packet_descriptor_queue observers, over the values read of _head, _tail *)

empty(h, t) == t = h

\* full() taking the queue for full one descriptor too late
full_late(h, t) == h % QUEUE_SIZE = t /\ h # t

full(h, t) == (h + 1) % QUEUE_SIZE = t

single_element(h, t) == (t + 1) % QUEUE_SIZE = h

single_slot_free(h, t) == (h + 2) % QUEUE_SIZE = t

slots_free(h, t) == (IF t > h THEN t - h ELSE QUEUE_SIZE - h + t) - 1

\* number of descriptors stored
Count(h, t) == (h - t + QUEUE_SIZE) % QUEUE_SIZE

-----------------------------------------------------------------------------
(* Signals: submit marks the context pending, wait_for_signal blocks until *)
(* it is pending and clears it.                                            *)

Submit(pending) == TRUE

CanWait(pending) == pending = TRUE

\* submit on a transmitter whose context may not have been set yet: without
\* a context the signal goes nowhere
SubmitTo(context, pending) == IF context THEN Submit(pending) ELSE pending

\* results of the consumer's calls: a descriptor, or whether a signal was sent
NoResult == [packet |-> << >>, submitted |-> "none"]

Returned(packet) == [packet |-> <<packet>>, submitted |-> "none"]

Submitted(flag) == [packet |-> << >>, submitted |-> flag]

\* the slots after Genode::memset(_queue, 0, sizeof(_queue))
EmptyQueue == [i \in 0 .. QUEUE_SIZE - 1 |-> DefaultDescriptor]

\* what the try_tx calls since the last tx_wakeup have seen: one of their adds
\* took the queue from empty to one entry, the consumer wrote _tail between
\* the add and the single_element() check of one of them
Batch0 == [e2o |-> FALSE, raced |-> FALSE]

\* what a call of the producer has seen so far: the queue was empty before
\* its write of _head, the consumer wrote _tail between that write and the
\* single_element() check that follows it, one of its add() calls failed, the number of its writes of _head, _head and the
\* slots as the call or its last add() found them, and (tx_wakeup) what the
\* try_tx calls before it had seen
PObs0 == [was_empty |-> FALSE, moved |-> FALSE, retried |-> FALSE, adds |-> 0,
          head0 |-> 0, queue0 |-> EmptyQueue, batch |-> Batch0]

\* the call, or its add(), is entered
AddEntry(obs, h, q) == [obs EXCEPT !.head0 = h, !.queue0 = q]

\* what a call of the consumer has seen so far: the queue was full before its
\* write of _tail, the producer wrote _head between that write and the
\* single_slot_free() check that follows it, the number of its writes of _tail, the oldest descriptor of the history at that write
CObs0 == [was_full |-> FALSE, moved |-> FALSE, gets |-> 0, oldest |-> << >>]

-----------------------------------------------------------------------------
(* Packet_stream_base::Packet_stream_base, as called by the constructors   *)
(* of Packet_stream_source and Packet_stream_sink                          *)

Sides == {"source", "sink"}

\* sizeof(Packet_descriptor_queue<Packet_descriptor, n>) on a 64-bit build:
\* _head and _tail of 4 bytes each, n descriptors of 16 bytes
QueueBytes(n) == 2 * 4 + n * 16

\* the log2 alignment of the bulk buffer
BulkAlignLog2 == 6

\* align_addr(addr, align_log2): addr rounded up to a multiple of 2^align_log2
align_addr(addr, align_log2) ==
    ((addr + 2 ^ align_log2 - 1) \div (2 ^ align_log2)) * (2 ^ align_log2)

\* the Packet_stream_base members before the constructor has run; attached
\* counts the attachments of the dataspace the endpoint has made in its
\* region map and not detached
Unconstructed ==
    [state |-> "none", submit_queue_offset |-> 0, ack_queue_offset |-> 0,
     bulk_buffer_offset |-> 0, bulk_buffer_size |-> 0, ds_size |-> 0,
     attached |-> 0]

\* the constructor comparing with > instead of >=
Packet_stream_base_gt(submit_queue_size, ack_queue_size, dsz) ==
    LET sqo == 0
        aqo == sqo + submit_queue_size
        bbo == align_addr(aqo + ack_queue_size, BulkAlignLog2)
    IN  IF bbo > dsz
        THEN [state |-> "Transport_dataspace_too_small",
              submit_queue_offset |-> sqo, ack_queue_offset |-> aqo,
              bulk_buffer_offset |-> bbo, bulk_buffer_size |-> 0,
              ds_size |-> 0, attached |-> 1]
        ELSE [state |-> "constructed",
              submit_queue_offset |-> sqo, ack_queue_offset |-> aqo,
              bulk_buffer_offset |-> bbo, bulk_buffer_size |-> dsz - bbo,
              ds_size |-> dsz, attached |-> 1]

\* the constructor placing the bulk buffer directly behind the queues
Packet_stream_base_packed(submit_queue_size, ack_queue_size, dsz) ==
    LET sqo == 0
        aqo == sqo + submit_queue_size
        bbo == aqo + ack_queue_size
    IN  IF bbo >= dsz
        THEN [state |-> "Transport_dataspace_too_small",
              submit_queue_offset |-> sqo, ack_queue_offset |-> aqo,
              bulk_buffer_offset |-> bbo, bulk_buffer_size |-> 0,
              ds_size |-> 0, attached |-> 1]
        ELSE [state |-> "constructed",
              submit_queue_offset |-> sqo, ack_queue_offset |-> aqo,
              bulk_buffer_offset |-> bbo, bulk_buffer_size |-> dsz - bbo,
              ds_size |-> dsz, attached |-> 1]

\* the members after Packet_stream_base(transport_ds, rm, submit_queue_size,
\* ack_queue_size) over a dataspace of size dsz:
\*   _submit_queue_offset(0),
\*   _ack_queue_offset(_submit_queue_offset + submit_queue_size),
\*   _bulk_buffer_offset(align_addr(_ack_queue_offset + ack_queue_size, 6))
\*   if ((Genode::size_t)_bulk_buffer_offset >= ds_size)
\*       throw Transport_dataspace_too_small();
\*   _ds_size = ds_size; _bulk_buffer_size = ds_size - _bulk_buffer_offset;
\* The dataspace is attached in the initialiser list, _ds_local_base(
\* rm.attach(_ds_cap)), before the body runs; an exception thrown by the body
\* ends the construction without the destructor being run.
Packet_stream_base(submit_queue_size, ack_queue_size, dsz) ==
    LET sqo == 0
        aqo == sqo + submit_queue_size
        bbo == align_addr(aqo + ack_queue_size, BulkAlignLog2)
    IN  IF bbo >= dsz
        THEN [state |-> "Transport_dataspace_too_small",
              submit_queue_offset |-> sqo, ack_queue_offset |-> aqo,
              bulk_buffer_offset |-> bbo, bulk_buffer_size |-> 0,
              ds_size |-> 0, attached |-> 1]
        ELSE [state |-> "constructed",
              submit_queue_offset |-> sqo, ack_queue_offset |-> aqo,
              bulk_buffer_offset |-> bbo, bulk_buffer_size |-> dsz - bbo,
              ds_size |-> dsz, attached |-> 1]

\* Packet_stream_source(transport_ds_cap, rm, packet_alloc) and
\* Packet_stream_sink(transport_ds, rm): Packet_stream_base(transport_ds, rm,
\* sizeof(Submit_queue), sizeof(Ack_queue))
construct(side) ==
    /\ stream[side].state = "none"
    /\ stream' = [stream EXCEPT ![side] =
                      Packet_stream_base(QueueBytes(policy[side].submit),
                                         QueueBytes(policy[side].ack),
                                         ds_size)]
    /\ UNCHANGED <<bulk_buffer_offset, bulk_buffer_size, ds_local_base,
                   policy, ds_size>>
    /\ UNCHANGED <<shm, txobj, rxobj, pthread, cthread, hist, pghost, cghost,
                   pvvars, session>>

\* ~Packet_stream_base(): _rm.detach(_ds_local_base), run for an endpoint
\* that has been constructed
destruct(side) ==
    /\ stream[side].state = "constructed"
    /\ stream' = [stream EXCEPT ![side].state = "destroyed",
                                ![side].attached = @ - 1]
    /\ UNCHANGED <<bulk_buffer_offset, bulk_buffer_size, ds_local_base,
                   policy, ds_size>>
    /\ UNCHANGED <<shm, txobj, rxobj, pthread, cthread, hist, pghost, cghost,
                   pvvars, session>>

\* the queue capacities and the dataspace sizes explored
Capacities == {2, 3, 4}

Policies == [submit : Capacities, ack : Capacities]

DsSizes == {0, 64, 127, 128, 129, 191, 192, 193, 256}

\* both sides using the default policy
DefaultPolicy == [side \in Sides |-> [submit |-> 64, ack |-> 64]]

\* the result of a call of the interface of source or sink
Result(op, result, packets, content) ==
    [op |-> op, result |-> result, packet |-> packets, content |-> content]

\* a call whose result is all in what its caller holds afterwards
Quiet == Result("none", "none", << >>, << >>)

\* an endpoint that is not suspended in a call
NotWaiting == [op |-> "none", packet |-> << >>]

\* the acknowledgement queue zero-filled, nothing allocated, no call made
NoSession ==
    /\ ack_head = 0 /\ ack_tail = 0
    /\ ack_queue = EmptyQueue
    /\ ack_tx_wakeup_needed = FALSE /\ ack_rx_wakeup_needed = FALSE
    /\ ack_tx_ready = FALSE /\ ack_rx_ready = FALSE
    /\ packet_alloc = {}
    /\ bulk = [o \in bulk_buffer_offset ..
                        (bulk_buffer_offset + bulk_buffer_size - 1) |-> 0]
    /\ src_held = {} /\ src_acked = {} /\ sink_held = {}
    /\ outstanding = {}
    /\ life = << >>
    /\ s_ret = Quiet
    /\ sf_ret = 0 /\ rts_count = 0
    /\ peer_stalled = FALSE
    /\ built = {"source", "sink"}
    /\ rx_sigh = TRUE
    /\ waiting = [side \in {"source", "sink"} |-> NotWaiting]
    /\ released = {}

-----------------------------------------------------------------------------
(* The state after Packet_stream_source and Packet_stream_sink have been   *)
(* constructed over a zero-filled dataspace.                               *)

Init ==
    /\ head = 0 /\ tail = 0
    /\ queue = EmptyQueue
    /\ tx_wakeup_needed = FALSE /\ tx_ready = FALSE
    /\ rx_wakeup_needed = FALSE /\ rx_ready = FALSE
    /\ ppc = "idle" /\ pop = "none" /\ ppkt = DefaultDescriptor
    /\ pret = "none" /\ add_ret = "none"
    /\ cpc = "idle" /\ cop = "none" /\ cpkt = DefaultDescriptor
    /\ cret = NoResult
    /\ fifo = << >>
    /\ p_sig = 0 /\ c_sig = 0
    /\ p_obs = PObs0 /\ c_obs = CObs0 /\ p_batch = Batch0
    /\ bulk_buffer_offset = 4 /\ bulk_buffer_size = 8
    /\ ds_local_base = 16
    /\ policy = DefaultPolicy /\ ds_size = 0
    /\ stream = [side \in Sides |-> Unconstructed]
    /\ pv_packet = DefaultDescriptor /\ pv_ret = "none" /\ pv_pc = "off"
    /\ pv_ptr = 0
    /\ NoSession

-----------------------------------------------------------------------------
(* Packet_descriptor_transmitter::tx *)

tx_call(p) ==
    /\ ppc = "idle"
    /\ ppc' = "tx_full" /\ pop' = "tx" /\ ppkt' = p
    /\ pret' = "none" /\ add_ret' = "none"
    /\ p_sig' = 0 /\ p_obs' = AddEntry(PObs0, head, queue)
    /\ UNCHANGED <<shm, txobj, rxobj, cthread, hist, cghost, base, pvvars,
                   session, p_batch>>

\* tx() returning without the descriptor when the queue is full
tx_full_giveup ==
    /\ ppc = "tx_full"
    /\ IF full(head, tail)
       THEN ppc' = "idle" /\ p_obs' = p_obs /\ pret' = "void"
       ELSE ppc' = "add_full" /\ p_obs' = AddEntry(p_obs, head, queue)
                              /\ pret' = pret
    /\ add_ret' = "none"
    /\ UNCHANGED <<pop, ppkt, p_sig, p_batch>>
    /\ UNCHANGED <<shm, txobj, rxobj, cthread, hist, cghost, base, pvvars,
                   session>>

\* if (_tx_queue->full()) ...
tx_full ==
    /\ ppc = "tx_full"
    /\ IF full(head, tail)
       THEN ppc' = "tx_wait" /\ p_obs' = p_obs
       ELSE ppc' = "add_full" /\ p_obs' = AddEntry(p_obs, head, queue)
    /\ add_ret' = "none"
    /\ UNCHANGED <<pop, ppkt, pret, p_sig, p_batch>>
    /\ UNCHANGED <<shm, txobj, rxobj, cthread, hist, cghost, base, pvvars,
                   session>>

\* ... _tx_ready.wait_for_signal();
tx_wait ==
    /\ ppc = "tx_wait"
    /\ CanWait(tx_ready)
    /\ tx_ready' = FALSE
    /\ ppc' = "add_full"
    /\ add_ret' = "none"
    /\ p_obs' = AddEntry(p_obs, head, queue)
    /\ UNCHANGED <<pop, ppkt, pret, tx_wakeup_needed, p_sig, p_batch>>
    /\ UNCHANGED <<shm, rxobj, cthread, hist, cghost, base, pvvars,
                   session>>

\* tx() going on after an add() that failed
AfterAdd_noloop(op, ok) == IF op = "tx" THEN "tx_single" ELSE "ttx_single"

\* where the caller of add() continues
AfterAdd(op, ok) ==
    IF op = "tx" THEN (IF ok THEN "tx_single" ELSE "tx_full") ELSE "ttx_single"

(* Packet_descriptor_queue::add *)

\* if (full()) return false;
add_full ==
    /\ ppc = "add_full"
    /\ IF full(head, tail)
       THEN /\ add_ret' = "false"
            /\ ppc' = AfterAdd(pop, FALSE)
            /\ p_obs' = [p_obs EXCEPT !.retried = TRUE]
       ELSE /\ ppc' = "add_write"
            /\ UNCHANGED <<add_ret, p_obs>>
    /\ UNCHANGED <<pop, ppkt, pret, p_sig, p_batch>>
    /\ UNCHANGED <<shm, txobj, rxobj, cthread, hist, cghost, base, pvvars,
                   session>>

\* _queue[_head%QUEUE_SIZE] = packet;
add_write ==
    /\ ppc = "add_write"
    /\ queue' = [queue EXCEPT ![head % QUEUE_SIZE] = ppkt]
    /\ ppc' = "add_head"
    /\ UNCHANGED <<head, tail, pop, ppkt, pret, add_ret>>
    /\ UNCHANGED <<txobj, rxobj, cthread, hist, pghost, cghost, base, pvvars,
                   session>>

\* add() advancing _head without the modulo
add_head_nowrap ==
    /\ ppc = "add_head"
    /\ head' = head + 1
    /\ add_ret' = "true"
    /\ ppc' = AfterAdd(pop, TRUE)
    /\ fifo' = Append(fifo, ppkt)
    /\ p_obs' = [p_obs EXCEPT !.was_empty = empty(head, tail),
                              !.moved = FALSE, !.adds = @ + 1]
    /\ c_obs' = [c_obs EXCEPT !.moved = @ \/ cpc \in {"rx_ssf", "trx_ssf"}]
    /\ p_batch' = [p_batch EXCEPT
                      !.e2o = @ \/ (pop = "try_tx" /\ empty(head, tail))]
    /\ UNCHANGED <<tail, queue, pop, ppkt, pret, p_sig, c_sig>>
    /\ UNCHANGED <<txobj, rxobj, cthread, base, pvvars,
                   session>>

\* _head = (_head + 1)%QUEUE_SIZE; return true;
add_head ==
    /\ ppc = "add_head"
    /\ head' = (head + 1) % QUEUE_SIZE
    /\ add_ret' = "true"
    /\ ppc' = AfterAdd(pop, TRUE)
    /\ fifo' = Append(fifo, ppkt)
    /\ p_obs' = [p_obs EXCEPT !.was_empty = empty(head, tail),
                              !.moved = FALSE, !.adds = @ + 1]
    /\ c_obs' = [c_obs EXCEPT !.moved = @ \/ cpc \in {"rx_ssf", "trx_ssf"}]
    /\ p_batch' = [p_batch EXCEPT
                      !.e2o = @ \/ (pop = "try_tx" /\ empty(head, tail))]
    /\ UNCHANGED <<tail, queue, pop, ppkt, pret, p_sig, c_sig>>
    /\ UNCHANGED <<txobj, rxobj, cthread, base, pvvars,
                   session>>

\* tx() submitting the signal whatever single_element() says
tx_single_always ==
    /\ ppc = "tx_single"
    /\ ppc' = "tx_submit" /\ pret' = pret
    /\ UNCHANGED <<pop, ppkt, add_ret>>
    /\ UNCHANGED <<shm, txobj, rxobj, cthread, hist, pghost, cghost, base, pvvars,
                   session>>

\* tx() returning after add() without looking at single_element()
tx_single_skip ==
    /\ ppc = "tx_single"
    /\ ppc' = "idle" /\ pret' = "void"
    /\ UNCHANGED <<pop, ppkt, add_ret>>
    /\ UNCHANGED <<shm, txobj, rxobj, cthread, hist, pghost, cghost, base, pvvars,
                   session>>

\* if (_tx_queue->single_element()) ...
tx_single ==
    /\ ppc = "tx_single"
    /\ IF single_element(head, tail)
       THEN ppc' = "tx_submit" /\ pret' = pret
       ELSE ppc' = "idle" /\ pret' = "void"
    /\ UNCHANGED <<pop, ppkt, add_ret>>
    /\ UNCHANGED <<shm, txobj, rxobj, cthread, hist, pghost, cghost, base, pvvars,
                   session>>

\* ... _rx_ready.submit();
tx_submit ==
    /\ ppc = "tx_submit"
    /\ rx_ready' = SubmitTo(rx_sigh, rx_ready)
    /\ p_sig' = p_sig + 1
    /\ ppc' = "idle" /\ pret' = "void"
    /\ UNCHANGED <<pop, ppkt, add_ret, rx_wakeup_needed, p_obs, p_batch>>
    /\ UNCHANGED <<shm, txobj, cthread, hist, cghost, base, pvvars,
                   session>>

-----------------------------------------------------------------------------
(* Packet_descriptor_transmitter::try_tx *)

try_tx_call(p) ==
    /\ ppc = "idle"
    /\ ppc' = "ttx_full" /\ pop' = "try_tx" /\ ppkt' = p
    /\ pret' = "none" /\ add_ret' = "none"
    /\ p_sig' = 0 /\ p_obs' = AddEntry(PObs0, head, queue)
    /\ UNCHANGED <<shm, txobj, rxobj, cthread, hist, cghost, base, pvvars,
                   session, p_batch>>

\* try_tx() without its own full() check
ttx_full_nofail ==
    /\ ppc = "ttx_full"
    /\ ppc' = "add_full" /\ pret' = pret
    /\ p_obs' = AddEntry(p_obs, head, queue)
    /\ UNCHANGED <<pop, ppkt, add_ret, p_sig, p_batch>>
    /\ UNCHANGED <<shm, txobj, rxobj, cthread, hist, cghost, base, pvvars,
                   session>>

\* try_tx() waiting for the signal, as tx() does, when the queue is full
ttx_full_wait ==
    /\ ppc = "ttx_full"
    /\ IF full(head, tail)
       THEN ppc' = "tx_wait" /\ pret' = pret /\ p_obs' = p_obs
       ELSE /\ ppc' = "add_full" /\ pret' = pret
            /\ p_obs' = AddEntry(p_obs, head, queue)
    /\ UNCHANGED <<pop, ppkt, add_ret, p_sig, p_batch>>
    /\ UNCHANGED <<shm, txobj, rxobj, cthread, hist, cghost, base, pvvars,
                   session>>

\* if (_tx_queue->full()) return false;
ttx_full ==
    /\ ppc = "ttx_full"
    /\ IF full(head, tail)
       THEN ppc' = "idle" /\ pret' = "false" /\ p_obs' = p_obs
       ELSE /\ ppc' = "add_full" /\ pret' = pret
            /\ p_obs' = AddEntry(p_obs, head, queue)
    /\ UNCHANGED <<pop, ppkt, add_ret, p_sig, p_batch>>
    /\ UNCHANGED <<shm, txobj, rxobj, cthread, hist, cghost, base, pvvars,
                   session>>

\* if (_tx_queue->single_element()) _tx_wakeup_needed = true; return true;
ttx_single ==
    /\ ppc = "ttx_single"
    /\ tx_wakeup_needed' = IF single_element(head, tail) THEN TRUE
                                                         ELSE tx_wakeup_needed
    /\ ppc' = "idle" /\ pret' = "true"
    /\ p_batch' = [p_batch EXCEPT !.raced = @ \/ p_obs.moved]
    /\ UNCHANGED <<pop, ppkt, add_ret, tx_ready, p_sig, p_obs>>
    /\ UNCHANGED <<shm, rxobj, cthread, hist, cghost, base, pvvars,
                   session>>

\* the positions of a try_tx() and the steps it has left at most from each
TryTxSteps ==
    [pc \in {"ttx_full", "add_full", "add_write", "add_head", "ttx_single",
             "idle"} |->
        CASE pc = "ttx_full"   -> 5
          [] pc = "add_full"   -> 4
          [] pc = "add_write"  -> 3
          [] pc = "add_head"   -> 2
          [] pc = "ttx_single" -> 1
          [] pc = "idle"       -> 0]

(* Packet_descriptor_transmitter::tx_wakeup *)

\* tx_wakeup() leaving _tx_wakeup_needed set
tx_wakeup_noclear ==
    /\ ppc = "idle"
    /\ pop' = "tx_wakeup"
    /\ IF tx_wakeup_needed
       THEN rx_ready' = SubmitTo(rx_sigh, rx_ready) /\ p_sig' = 1 /\ pret' = "true"
       ELSE rx_ready' = rx_ready /\ p_sig' = 0 /\ pret' = "false"
    /\ tx_wakeup_needed' = tx_wakeup_needed
    /\ p_obs' = [AddEntry(PObs0, head, queue) EXCEPT !.batch = p_batch]
    /\ p_batch' = Batch0
    /\ add_ret' = "none"
    /\ UNCHANGED <<ppc, ppkt, tx_ready, rx_wakeup_needed>>
    /\ UNCHANGED <<shm, cthread, hist, cghost, base, pvvars,
                   session>>

\* bool signal_submitted = false; if (_tx_wakeup_needed) { _rx_ready.submit();
\* signal_submitted = true; } _tx_wakeup_needed = false; return signal_submitted;
tx_wakeup ==
    /\ ppc = "idle"
    /\ pop' = "tx_wakeup"
    /\ IF tx_wakeup_needed
       THEN rx_ready' = SubmitTo(rx_sigh, rx_ready) /\ p_sig' = 1 /\ pret' = "true"
       ELSE rx_ready' = rx_ready /\ p_sig' = 0 /\ pret' = "false"
    /\ tx_wakeup_needed' = FALSE
    /\ p_obs' = [AddEntry(PObs0, head, queue) EXCEPT !.batch = p_batch]
    /\ p_batch' = Batch0
    /\ add_ret' = "none"
    /\ UNCHANGED <<ppc, ppkt, tx_ready, rx_wakeup_needed>>
    /\ UNCHANGED <<shm, cthread, hist, cghost, base, pvvars,
                   session>>

-----------------------------------------------------------------------------
(* Packet_descriptor_receiver::rx *)

rx_call ==
    /\ cpc = "idle"
    /\ cpc' = "rx_empty" /\ cop' = "rx" /\ cpkt' = DefaultDescriptor
    /\ cret' = NoResult
    /\ c_sig' = 0 /\ c_obs' = CObs0
    /\ UNCHANGED <<shm, txobj, rxobj, pthread, hist, pghost, base, pvvars,
                   session>>

\* while (_rx_queue->empty()) ...
rx_empty ==
    /\ cpc = "rx_empty"
    /\ cpc' = IF empty(head, tail) THEN "rx_wait" ELSE "get_read"
    /\ UNCHANGED <<cop, cpkt, cret>>
    /\ UNCHANGED <<shm, txobj, rxobj, pthread, hist, pghost, cghost, base, pvvars,
                   session>>

\* rx() taking a descriptor after the wakeup without looking at empty() again
rx_wait_norecheck ==
    /\ cpc = "rx_wait"
    /\ CanWait(rx_ready)
    /\ rx_ready' = FALSE
    /\ cpc' = "get_read"
    /\ UNCHANGED <<cop, cpkt, cret, rx_wakeup_needed>>
    /\ UNCHANGED <<shm, txobj, pthread, hist, pghost, cghost, base, pvvars,
                   session>>

\* ... _rx_ready.wait_for_signal();
rx_wait ==
    /\ cpc = "rx_wait"
    /\ CanWait(rx_ready)
    /\ rx_ready' = FALSE
    /\ cpc' = "rx_empty"
    /\ UNCHANGED <<cop, cpkt, cret, rx_wakeup_needed>>
    /\ UNCHANGED <<shm, txobj, pthread, hist, pghost, cghost, base, pvvars,
                   session>>

\* where the caller of get() continues
AfterGet(op) == IF op = "rx" THEN "rx_ssf" ELSE "trx_ssf"

(* Packet_descriptor_queue::get *)

\* get() reading the slot after the one _tail names
get_read_next ==
    /\ cpc = "get_read"
    /\ cpkt' = queue[(tail + 1) % QUEUE_SIZE]
    /\ cpc' = "get_tail"
    /\ UNCHANGED <<cop, cret>>
    /\ UNCHANGED <<shm, txobj, rxobj, pthread, hist, pghost, cghost, base, pvvars,
                   session>>

\* PACKET_DESCRIPTOR packet = _queue[_tail%QUEUE_SIZE];
get_read ==
    /\ cpc = "get_read"
    /\ cpkt' = queue[tail % QUEUE_SIZE]
    /\ cpc' = "get_tail"
    /\ UNCHANGED <<cop, cret>>
    /\ UNCHANGED <<shm, txobj, rxobj, pthread, hist, pghost, cghost, base, pvvars,
                   session>>

\* get() zeroing the slot it has taken the descriptor from
get_tail_clear ==
    /\ cpc = "get_tail"
    /\ tail' = (tail + 1) % QUEUE_SIZE
    /\ queue' = [queue EXCEPT ![tail % QUEUE_SIZE] = DefaultDescriptor]
    /\ cpc' = AfterGet(cop)
    /\ fifo' = IF fifo = << >> THEN fifo ELSE Tail(fifo)
    /\ c_obs' = [c_obs EXCEPT !.was_full = full(head, tail),
                              !.moved = FALSE, !.gets = @ + 1,
                              !.oldest = IF fifo = << >> THEN << >>
                                                         ELSE <<Head(fifo)>>]
    /\ p_obs' = [p_obs EXCEPT !.moved = @ \/ ppc \in {"tx_single", "ttx_single"}]
    /\ UNCHANGED <<head, cop, cpkt, cret, p_sig, c_sig, p_batch>>
    /\ UNCHANGED <<txobj, rxobj, pthread, base, pvvars,
                   session>>

\* _tail = (_tail + 1)%QUEUE_SIZE; return packet;
get_tail ==
    /\ cpc = "get_tail"
    /\ tail' = (tail + 1) % QUEUE_SIZE
    /\ cpc' = AfterGet(cop)
    /\ fifo' = IF fifo = << >> THEN fifo ELSE Tail(fifo)
    /\ c_obs' = [c_obs EXCEPT !.was_full = full(head, tail),
                              !.moved = FALSE, !.gets = @ + 1,
                              !.oldest = IF fifo = << >> THEN << >>
                                                         ELSE <<Head(fifo)>>]
    /\ p_obs' = [p_obs EXCEPT !.moved = @ \/ ppc \in {"tx_single", "ttx_single"}]
    /\ UNCHANGED <<head, queue, cop, cpkt, cret, p_sig, c_sig, p_batch>>
    /\ UNCHANGED <<txobj, rxobj, pthread, base, pvvars,
                   session>>

\* rx() returning after get() without looking at single_slot_free()
rx_ssf_skip ==
    /\ cpc = "rx_ssf"
    /\ cpc' = "idle" /\ cret' = Returned(cpkt)
    /\ UNCHANGED <<cop, cpkt>>
    /\ UNCHANGED <<shm, txobj, rxobj, pthread, hist, pghost, cghost, base, pvvars,
                   session>>

\* if (_rx_queue->single_slot_free()) ...
rx_ssf ==
    /\ cpc = "rx_ssf"
    /\ IF single_slot_free(head, tail)
       THEN cpc' = "rx_submit" /\ cret' = cret
       ELSE cpc' = "idle" /\ cret' = Returned(cpkt)
    /\ UNCHANGED <<cop, cpkt>>
    /\ UNCHANGED <<shm, txobj, rxobj, pthread, hist, pghost, cghost, base, pvvars,
                   session>>

\* ... _tx_ready.submit();
rx_submit ==
    /\ cpc = "rx_submit"
    /\ tx_ready' = Submit(tx_ready)
    /\ c_sig' = c_sig + 1
    /\ cpc' = "idle" /\ cret' = Returned(cpkt)
    /\ UNCHANGED <<cop, cpkt, tx_wakeup_needed, c_obs>>
    /\ UNCHANGED <<shm, rxobj, pthread, hist, pghost, base, pvvars,
                   session>>

-----------------------------------------------------------------------------
(* Packet_descriptor_receiver::try_rx *)

try_rx_call ==
    /\ cpc = "idle"
    /\ cpc' = "trx_empty" /\ cop' = "try_rx" /\ cpkt' = DefaultDescriptor
    /\ cret' = NoResult
    /\ c_sig' = 0 /\ c_obs' = CObs0
    /\ UNCHANGED <<shm, txobj, rxobj, pthread, hist, pghost, base, pvvars,
                   session>>

\* if (!_rx_queue->empty()) packet = _rx_queue->get();
trx_empty ==
    /\ cpc = "trx_empty"
    /\ cpc' = IF ~empty(head, tail) THEN "get_read" ELSE "trx_ssf"
    /\ UNCHANGED <<cop, cpkt, cret>>
    /\ UNCHANGED <<shm, txobj, rxobj, pthread, hist, pghost, cghost, base, pvvars,
                   session>>

\* if (_rx_queue->single_slot_free()) _rx_wakeup_needed = true; return packet;
trx_ssf ==
    /\ cpc = "trx_ssf"
    /\ rx_wakeup_needed' = IF single_slot_free(head, tail) THEN TRUE
                                                           ELSE rx_wakeup_needed
    /\ cpc' = "idle" /\ cret' = Returned(cpkt)
    /\ UNCHANGED <<cop, cpkt, rx_ready>>
    /\ UNCHANGED <<shm, txobj, pthread, hist, pghost, cghost, base, pvvars,
                   session>>

\* the positions of a try_rx() and the steps it has left at most from each
TryRxSteps ==
    [pc \in {"trx_empty", "get_read", "get_tail", "trx_ssf", "idle"} |->
        CASE pc = "trx_empty" -> 4
          [] pc = "get_read"  -> 3
          [] pc = "get_tail"  -> 2
          [] pc = "trx_ssf"   -> 1
          [] pc = "idle"      -> 0]

(* Packet_descriptor_receiver::rx_wakeup *)

rx_wakeup ==
    /\ cpc = "idle"
    /\ cop' = "rx_wakeup"
    /\ IF rx_wakeup_needed
       THEN tx_ready' = Submit(tx_ready) /\ c_sig' = 1 /\ cret' = Submitted("true")
       ELSE tx_ready' = tx_ready /\ c_sig' = 0 /\ cret' = Submitted("false")
    /\ rx_wakeup_needed' = FALSE
    /\ c_obs' = CObs0
    /\ UNCHANGED <<cpc, cpkt, rx_ready, tx_wakeup_needed>>
    /\ UNCHANGED <<shm, pthread, hist, pghost, base, pvvars,
                   session>>

(* Packet_descriptor_receiver::rx_peek *)

rx_peek ==
    /\ cpc = "idle"
    /\ cop' = "rx_peek"
    /\ cret' = Returned(queue[tail % QUEUE_SIZE])
    /\ c_sig' = 0 /\ c_obs' = CObs0
    /\ UNCHANGED <<cpc, cpkt>>
    /\ UNCHANGED <<shm, txobj, rxobj, pthread, hist, pghost, base, pvvars,
                   session>>

-----------------------------------------------------------------------------

AddSteps == add_full \/ add_write \/ add_head

GetSteps == get_read \/ get_tail

\* the producing side, submitting descriptors of PS
Producer(PS) ==
    \/ \E p \in PS : tx_call(p)
    \/ tx_full \/ tx_wait \/ tx_single \/ tx_submit
    \/ \E p \in PS : try_tx_call(p)
    \/ ttx_full \/ ttx_single
    \/ AddSteps
    \/ tx_wakeup

Consumer ==
    \/ rx_call \/ rx_empty \/ rx_wait \/ rx_ssf \/ rx_submit
    \/ try_rx_call \/ trx_empty \/ trx_ssf
    \/ GetSteps
    \/ rx_wakeup \/ rx_peek

\* both sides issue every call, in every interleaving
Next == Producer(Packets) \/ Consumer

Spec == Init /\ [][Next]_vars

\* as Spec, the descriptors submitted being all the same
NextControl == Producer({Packet1}) \/ Consumer

SpecControl == Init /\ [][NextControl]_vars

\* both sides use the blocking calls only
NextBlocking ==
    \/ \E p \in Packets : tx_call(p)
    \/ tx_full \/ tx_wait \/ tx_single \/ tx_submit
    \/ AddSteps
    \/ rx_call \/ rx_empty \/ rx_wait \/ rx_ssf \/ rx_submit
    \/ GetSteps

SpecBlocking == Init /\ [][NextBlocking]_vars

\* the steps of the thread calling tx() and of the thread calling rx()
TxThread ==
    \/ \E p \in Packets : tx_call(p)
    \/ tx_full \/ tx_wait \/ tx_single \/ tx_submit
    \/ AddSteps

RxThread ==
    \/ rx_call \/ rx_empty \/ rx_wait \/ rx_ssf \/ rx_submit
    \/ GetSteps

\* the blocking calls, each thread running whenever it can: it goes on if it
\* is not suspended, wakes up when its signal is pending, and calls again
\* after it has returned
SpecLive ==
    Init /\ [][NextBlocking]_vars /\ WF_vars(TxThread) /\ WF_vars(RxThread)

\* both sides use the non-blocking calls only
NextNonBlocking ==
    \/ \E p \in Packets : try_tx_call(p)
    \/ ttx_full \/ ttx_single
    \/ AddSteps
    \/ tx_wakeup
    \/ try_rx_call \/ trx_empty \/ trx_ssf
    \/ GetSteps
    \/ rx_wakeup \/ rx_peek

SpecNonBlocking == Init /\ [][NextNonBlocking]_vars

\* the consuming peer stops for good, wherever it is
peer_stalls ==
    /\ ~peer_stalled
    /\ peer_stalled' = TRUE
    /\ UNCHANGED <<built, rx_sigh, waiting>>
    /\ UNCHANGED <<shm, txobj, rxobj, pthread, cthread, hist, pghost, cghost,
                   base, pvvars>>
    /\ UNCHANGED <<ackq, ackobj, packet_alloc, bulk, src_held, src_acked,
                   sink_held, outstanding, life, s_ret, slots, freed>>

\* the blocking calls, the consumer running until it stalls
NextStalled ==
    \/ \E p \in Packets : tx_call(p)
    \/ tx_full \/ tx_wait \/ tx_single \/ tx_submit
    \/ AddSteps
    \/ ~peer_stalled /\ (rx_call \/ rx_empty \/ rx_wait \/ rx_ssf \/ rx_submit)
    \/ ~peer_stalled /\ GetSteps
    \/ peer_stalls

SpecStalled == Init /\ [][NextStalled]_vars

-----------------------------------------------------------------------------
(* Packet_stream_base::packet_valid, over off_t (signed) and size_t        *)
(* (unsigned) of WordBits bits                                             *)

Wrap == 2 ^ WordBits

OffT == -(Wrap \div 2) .. (Wrap \div 2 - 1)

SizeT == 0 .. (Wrap - 1)

\* conversion of a signed or wider value to size_t
ToUnsigned(x) == x % Wrap

\* conversion of a size_t value to off_t
ToSigned(u) == IF u % Wrap >= Wrap \div 2 THEN (u % Wrap) - Wrap ELSE u % Wrap

\* return !packet.size() || (packet.offset() >= _bulk_buffer_offset
\*     && packet.offset() < _bulk_buffer_offset + (Genode::off_t)_bulk_buffer_size
\*     && packet.offset() + packet.size() <= _bulk_buffer_offset + _bulk_buffer_size);
\* The second comparison is one of off_t values; the third adds an off_t to a
\* size_t, which converts the off_t to size_t and wraps.
packet_valid(packet, bbo, bbs) ==
    \/ packet.size = 0
    \/ /\ packet.offset >= bbo
       /\ packet.offset < ToSigned(bbo + ToSigned(bbs))
       /\ ToUnsigned(ToUnsigned(packet.offset) + packet.size)
              <= ToUnsigned(ToUnsigned(bbo) + bbs)

\* the layouts explored: _bulk_buffer_offset, _bulk_buffer_size, the end of the
\* dataspace lying within the positive range of off_t
Layouts == {<<4, 4>>, <<4, 8>>}

\* the local addresses at which the dataspace is attached
LocalBases == {0, 16}

\* sizeof(CONTENT_TYPE), the default policy's content type being char
ContentSize == 1

\* if (!packet.size()) return nullptr;
\* if (!packet_valid(packet) || packet.size() < sizeof(CONTENT_TYPE))
\*     throw Packet_descriptor::Invalid_packet();
\* return (CONTENT_TYPE *)((Genode::addr_t)_ds_local_base + packet.offset());
packet_content(packet, bbo, bbs, dlb) ==
    IF packet.size = 0
    THEN [kind |-> "nullptr", ptr |-> 0]
    ELSE IF ~packet_valid(packet, bbo, bbs) \/ packet.size < ContentSize
         THEN [kind |-> "Invalid_packet", ptr |-> 0]
         ELSE [kind |-> "pointer",
               ptr |-> ToUnsigned(dlb + ToUnsigned(packet.offset))]

InitValid ==
    /\ head = 0 /\ tail = 0
    /\ queue = EmptyQueue
    /\ tx_wakeup_needed = FALSE /\ tx_ready = FALSE
    /\ rx_wakeup_needed = FALSE /\ rx_ready = FALSE
    /\ ppc = "idle" /\ pop = "none" /\ ppkt = DefaultDescriptor
    /\ pret = "none" /\ add_ret = "none"
    /\ cpc = "idle" /\ cop = "none" /\ cpkt = DefaultDescriptor
    /\ cret = NoResult
    /\ fifo = << >>
    /\ p_sig = 0 /\ c_sig = 0
    /\ p_obs = PObs0 /\ c_obs = CObs0 /\ p_batch = Batch0
    /\ \E l \in Layouts : bulk_buffer_offset = l[1] /\ bulk_buffer_size = l[2]
    /\ ds_local_base \in LocalBases
    /\ policy = DefaultPolicy /\ ds_size = 0
    /\ stream = [side \in Sides |-> Unconstructed]
    /\ pv_packet \in [offset : OffT, size : SizeT]
    /\ pv_ret = "none" /\ pv_pc = "call"
    /\ pv_ptr = 0
    /\ NoSession

packet_valid_call ==
    /\ pv_pc = "call"
    /\ pv_ret' = IF packet_valid(pv_packet, bulk_buffer_offset, bulk_buffer_size)
                 THEN "true" ELSE "false"
    /\ pv_pc' = "done"
    /\ UNCHANGED <<pv_packet, pv_ptr, base>>
    /\ UNCHANGED <<shm, txobj, rxobj, pthread, cthread, hist, pghost, cghost,
                   session>>

\* Packet_stream_source::packet_content, Packet_stream_sink::packet_content
packet_content_call ==
    /\ pv_pc = "call"
    /\ LET r == packet_content(pv_packet, bulk_buffer_offset, bulk_buffer_size,
                               ds_local_base)
       IN  pv_ret' = r.kind /\ pv_ptr' = r.ptr
    /\ pv_pc' = "content_done"
    /\ UNCHANGED <<pv_packet, base>>
    /\ UNCHANGED <<shm, txobj, rxobj, pthread, cthread, hist, pghost, cghost,
                   session>>

NextValid == packet_valid_call \/ packet_content_call

SpecValid == InitValid /\ [][NextValid]_vars

-----------------------------------------------------------------------------
(* Construction of source and sink over one dataspace *)

InitConstruct ==
    /\ head = 0 /\ tail = 0
    /\ queue = EmptyQueue
    /\ tx_wakeup_needed = FALSE /\ tx_ready = FALSE
    /\ rx_wakeup_needed = FALSE /\ rx_ready = FALSE
    /\ ppc = "idle" /\ pop = "none" /\ ppkt = DefaultDescriptor
    /\ pret = "none" /\ add_ret = "none"
    /\ cpc = "idle" /\ cop = "none" /\ cpkt = DefaultDescriptor
    /\ cret = NoResult
    /\ fifo = << >>
    /\ p_sig = 0 /\ c_sig = 0
    /\ p_obs = PObs0 /\ c_obs = CObs0 /\ p_batch = Batch0
    /\ bulk_buffer_offset = 0 /\ bulk_buffer_size = 0
    /\ ds_local_base = 0
    /\ policy \in [Sides -> Policies]
    /\ ds_size \in DsSizes
    /\ stream = [side \in Sides |-> Unconstructed]
    /\ pv_packet = DefaultDescriptor /\ pv_ret = "none" /\ pv_pc = "off"
    /\ pv_ptr = 0
    /\ NoSession

NextConstruct == \E side \in Sides : construct(side)

SpecConstruct == InitConstruct /\ [][NextConstruct]_vars

\* the endpoints constructed and, where the construction has succeeded,
\* destroyed
NextLifetime ==
    \/ \E side \in Sides : construct(side)
    \/ \E side \in Sides : destruct(side)

SpecLifetime == InitConstruct /\ [][NextLifetime]_vars

-----------------------------------------------------------------------------
(* Packet_stream_source and Packet_stream_sink over one dataspace: the      *)
(* submit queue (head, tail, queue), the acknowledgement queue, the bulk    *)
(* buffer and the packet allocator of the source. Each step is one call of  *)
(* the public interface, taken as a whole; the blocking calls are followed  *)
(* along the path that does not wait (the waiting paths are followed step   *)
(* by step by tx and rx above).                                             *)

\* the bytes a packet's payload is made of
Bytes == {0, 1}

\* the sizes passed to alloc_packet
AllocSizes == {1, 2}

\* enum Alignment { PACKET_ALIGNMENT = 0 }
PACKET_ALIGNMENT == 0

\* the local addresses at which source and sink have attached the dataspace
AttachedAt == [source |-> 16, sink |-> 0]

\* the bytes of the dataspace a descriptor names
Range(d) == d.offset .. (d.offset + d.size - 1)

\* Range_allocator::alloc_aligned(size, &base, align): the bases at which a
\* block of size bytes can be placed among the blocks handed out; the call
\* fails if there is none
FreeBases(blocks, bbo, bbs, size, align) ==
    {b \in bbo .. (bbo + bbs - size) :
        /\ b % (2 ^ align) = 0
        /\ \A blk \in blocks : Range(blk) \cap (b .. (b + size - 1)) = {}}

\* Range_allocator::free(addr, size)
FreeBlock(blocks, addr, size) == {blk \in blocks : blk.offset # addr}

\* the bytes read through a pointer of a side, size of them (-1 for a byte
\* outside the bulk buffer, whose content is not followed)
Load(mem, side, ptr, size) ==
    [i \in 1 .. size |->
        LET o == ToUnsigned(ptr + (i - 1) - AttachedAt[side])
        IN  IF o \in DOMAIN mem THEN mem[o] ELSE -1]

\* the memory after data has been written through a pointer of a side
Store(mem, side, ptr, data) ==
    [o \in DOMAIN mem |->
        LET i == ToUnsigned(AttachedAt[side] + o) - ptr
        IN  IF i \in 0 .. (Len(data) - 1) THEN data[i + 1] ELSE mem[o]]

\* the calls a packet goes through between alloc_packet and release_packet
Lifecycle == <<"alloc_packet", "submit_packet", "get_packet",
               "acknowledge_packet", "get_acked_packet">>

\* the events of a packet's life so far and the payload the source has put
\* into it
Born(content) == [events |-> <<"alloc_packet">>, payload |-> content]

Event(l, d, e) == [l EXCEPT ![d].events = Append(@, e)]

\* the descriptors stored, oldest first, as _head, _tail and the slots say
QueueContents ==
    [i \in 1 .. Count(head, tail) |-> queue[(tail + i - 1) % QUEUE_SIZE]]

\* the same for the acknowledgement queue
AckContents ==
    [i \in 1 .. Count(ack_head, ack_tail) |->
        ack_queue[(ack_tail + i - 1) % QUEUE_SIZE]]

\* the variables no call of the public interface touches in these steps
bystanders == <<pthread, cthread, pghost, cghost, base, pvvars, slots, env>>

callers == <<bystanders, freed>>

(* Packet_stream_source *)

\* alloc_packet() going on after a failed alloc_aligned()
alloc_packet_noerror(size) ==
    /\ LET bases == FreeBases(packet_alloc, bulk_buffer_offset,
                              bulk_buffer_size, size, PACKET_ALIGNMENT)
       IN  \E addr \in (IF size = 0 \/ bases = {} THEN {0} ELSE bases) :
               LET d == Descriptor(addr, size)
               IN  /\ packet_alloc' = IF size = 0 \/ bases = {}
                                      THEN packet_alloc
                                      ELSE packet_alloc \cup {d}
                   /\ src_held' = src_held \cup {d}
                   /\ outstanding' = outstanding \cup {d}
                   /\ released' = {r \in released : Range(r) \cap Range(d) = {}}
                   /\ life' = [x \in DOMAIN life \cup {d} |->
                                  IF x = d THEN Born(<< >>) ELSE life[x]]
                   /\ s_ret' = Result("alloc_packet", "ok", << >>, << >>)
    /\ UNCHANGED <<shm, txobj, rxobj, hist, bystanders>>
    /\ UNCHANGED <<ackq, ackobj, bulk, src_acked, sink_held>>

\* alloc_packet() asking the allocator whatever the size
alloc_packet_nozero(size) ==
    /\ LET bases == FreeBases(packet_alloc, bulk_buffer_offset,
                              bulk_buffer_size, size, PACKET_ALIGNMENT)
       IN  IF bases = {}
           THEN /\ s_ret' = Result("alloc_packet", "Packet_alloc_failed",
                                   << >>, << >>)
                /\ UNCHANGED <<packet_alloc, src_held, outstanding, life, released>>
           ELSE \E addr \in bases :
                   LET d == Descriptor(addr, size)
                   IN  /\ packet_alloc' = packet_alloc \cup {d}
                       /\ src_held' = src_held \cup {d}
                       /\ outstanding' = outstanding \cup {d}
                       /\ released' = {r \in released : Range(r) \cap Range(d) = {}}
                       /\ life' = [x \in DOMAIN life \cup {d} |->
                                      IF x = d
                                      THEN Born(Load(bulk, "source",
                                                AttachedAt["source"] + addr,
                                                size))
                                      ELSE life[x]]
                       /\ s_ret' = Result("alloc_packet", "ok", << >>, << >>)
    /\ UNCHANGED <<shm, txobj, rxobj, hist, bystanders>>
    /\ UNCHANGED <<ackq, ackobj, bulk, src_acked, sink_held>>

\* alloc_packet() over an allocator that was given the whole dataspace
alloc_packet_whole(size) ==
    /\ LET bases == FreeBases(packet_alloc, 0,
                              bulk_buffer_offset + bulk_buffer_size, size,
                              PACKET_ALIGNMENT)
       IN  IF size # 0 /\ bases = {}
           THEN /\ s_ret' = Result("alloc_packet", "Packet_alloc_failed",
                                   << >>, << >>)
                /\ UNCHANGED <<packet_alloc, src_held, outstanding, life, released>>
           ELSE \E addr \in (IF size = 0 THEN {0} ELSE bases) :
                   LET d == Descriptor(addr, size)
                   IN  /\ packet_alloc' = IF size = 0 THEN packet_alloc
                                          ELSE packet_alloc \cup {d}
                       /\ src_held' = src_held \cup {d}
                       /\ outstanding' = outstanding \cup {d}
                       /\ released' = {r \in released : Range(r) \cap Range(d) = {}}
                       /\ life' = [x \in DOMAIN life \cup {d} |->
                                      IF x = d
                                      THEN Born(Load(bulk, "source",
                                                AttachedAt["source"] + addr,
                                                size))
                                      ELSE life[x]]
                       /\ s_ret' = Result("alloc_packet", "ok", << >>, << >>)
    /\ UNCHANGED <<shm, txobj, rxobj, hist, bystanders>>
    /\ UNCHANGED <<ackq, ackobj, bulk, src_acked, sink_held>>

\* void *base = 0;
\* if (size && _packet_alloc.alloc_aligned(size, &base, align).error())
\*     throw Packet_alloc_failed();
\* return Packet_descriptor((Genode::off_t)base, size);
alloc_packet(size) ==
    /\ LET bases == FreeBases(packet_alloc, bulk_buffer_offset,
                              bulk_buffer_size, size, PACKET_ALIGNMENT)
       IN  IF size # 0 /\ bases = {}
           THEN /\ s_ret' = Result("alloc_packet", "Packet_alloc_failed",
                                   << >>, << >>)
                /\ UNCHANGED <<packet_alloc, src_held, outstanding, life, released>>
           ELSE \E addr \in (IF size = 0 THEN {0} ELSE bases) :
                   LET d == Descriptor(addr, size)
                   IN  /\ packet_alloc' = IF size = 0 THEN packet_alloc
                                          ELSE packet_alloc \cup {d}
                       /\ src_held' = src_held \cup {d}
                       /\ outstanding' = outstanding \cup {d}
                       /\ released' = {r \in released : Range(r) \cap Range(d) = {}}
                       /\ life' = [x \in DOMAIN life \cup {d} |->
                                      IF x = d
                                      THEN Born(Load(bulk, "source",
                                                AttachedAt["source"] + addr,
                                                size))
                                      ELSE life[x]]
                       /\ s_ret' = Result("alloc_packet", "ok", << >>, << >>)
    /\ UNCHANGED <<shm, txobj, rxobj, hist, bystanders>>
    /\ UNCHANGED <<ackq, ackobj, bulk, src_acked, sink_held>>

\* the source fills a packet it has allocated through the pointer
\* Packet_stream_source::packet_content(packet) returns
source_packet_content(d, data) ==
    /\ d \in src_held
    /\ LET r == packet_content(d, bulk_buffer_offset, bulk_buffer_size,
                               AttachedAt["source"])
       IN  IF r.kind = "pointer"
           THEN /\ bulk' = Store(bulk, "source", r.ptr, data)
                /\ life' = [life EXCEPT ![d].payload = data]
                /\ s_ret' = Quiet
           ELSE /\ s_ret' = Quiet
                /\ UNCHANGED <<bulk, life>>
    /\ UNCHANGED <<shm, txobj, rxobj, hist, callers>>
    /\ UNCHANGED <<ackq, ackobj, packet_alloc, src_held, src_acked, sink_held,
                   outstanding>>

\* submit_packet(packet): _submit_transmitter.tx(packet), the submit queue
\* not being full
submit_packet(d) ==
    /\ d \in src_held
    /\ ~full(head, tail)
    /\ queue' = [queue EXCEPT ![head % QUEUE_SIZE] = d]
    /\ head' = (head + 1) % QUEUE_SIZE
    /\ rx_ready' = IF single_element(head', tail) THEN SubmitTo(rx_sigh, rx_ready)
                                                  ELSE rx_ready
    /\ fifo' = Append(fifo, d)
    /\ src_held' = src_held \ {d}
    /\ life' = Event(life, d, "submit_packet")
    /\ s_ret' = Quiet
    /\ UNCHANGED <<tail, txobj, rx_wakeup_needed, callers>>
    /\ UNCHANGED <<ackq, ackobj, packet_alloc, bulk, src_acked, sink_held,
                   outstanding>>

\* try_submit_packet(packet): _submit_transmitter.try_tx(packet)
try_submit_packet(d) ==
    /\ d \in src_held
    /\ IF full(head, tail)
       THEN /\ s_ret' = Quiet
            /\ UNCHANGED <<shm, tx_wakeup_needed, fifo, src_held, life>>
       ELSE /\ queue' = [queue EXCEPT ![head % QUEUE_SIZE] = d]
            /\ head' = (head + 1) % QUEUE_SIZE
            /\ tail' = tail
            /\ tx_wakeup_needed' = IF single_element(head', tail) THEN TRUE
                                   ELSE tx_wakeup_needed
            /\ fifo' = Append(fifo, d)
            /\ src_held' = src_held \ {d}
            /\ life' = Event(life, d, "submit_packet")
            /\ s_ret' = Quiet
    /\ UNCHANGED <<tx_ready, rxobj, callers>>
    /\ UNCHANGED <<ackq, ackobj, packet_alloc, bulk, src_acked, sink_held,
                   outstanding>>

\* wakeup() calling both, _submit_transmitter.tx_wakeup() and
\* _ack_receiver.rx_wakeup(), whatever the first one returns
source_wakeup_both ==
    /\ rx_ready' = IF tx_wakeup_needed THEN SubmitTo(rx_sigh, rx_ready)
                                       ELSE rx_ready
    /\ ack_tx_ready' = IF ack_rx_wakeup_needed THEN Submit(ack_tx_ready)
                                               ELSE ack_tx_ready
    /\ s_ret' = Result("source_wakeup", "void", << >>,
                       (IF tx_wakeup_needed THEN <<"rx_ready">> ELSE << >>)
                       \o (IF ack_rx_wakeup_needed THEN <<"ack_tx_ready">>
                                                   ELSE << >>))
    /\ tx_wakeup_needed' = FALSE
    /\ ack_rx_wakeup_needed' = FALSE
    /\ UNCHANGED <<shm, tx_ready, rx_wakeup_needed, hist, callers>>
    /\ UNCHANGED <<ackq, ack_tx_wakeup_needed, ack_rx_ready, packet_alloc, bulk,
                   src_held, src_acked, sink_held, outstanding, life>>

\* Packet_stream_source::wakeup():
\* _submit_transmitter.tx_wakeup() || _ack_receiver.rx_wakeup();
\* s_ret.content lists the signals submitted
source_wakeup ==
    /\ IF tx_wakeup_needed
       THEN /\ rx_ready' = SubmitTo(rx_sigh, rx_ready)
            /\ s_ret' = Result("source_wakeup", "void", << >>, <<"rx_ready">>)
            /\ UNCHANGED <<ack_rx_wakeup_needed, ack_tx_ready>>
       ELSE /\ rx_ready' = rx_ready
            /\ ack_tx_ready' = IF ack_rx_wakeup_needed THEN Submit(ack_tx_ready)
                                                       ELSE ack_tx_ready
            /\ s_ret' = Result("source_wakeup", "void", << >>,
                               IF ack_rx_wakeup_needed THEN <<"ack_tx_ready">>
                                                       ELSE << >>)
            /\ ack_rx_wakeup_needed' = FALSE
    /\ tx_wakeup_needed' = FALSE
    /\ UNCHANGED <<shm, tx_ready, rx_wakeup_needed, hist, callers>>
    /\ UNCHANGED <<ackq, ack_tx_wakeup_needed, ack_rx_ready, packet_alloc, bulk,
                   src_held, src_acked, sink_held, outstanding, life>>

\* registration that sets the context and sends nothing
register_sigh_packet_avail_nosubmit ==
    /\ rx_sigh' = TRUE
    /\ rx_ready' = rx_ready
    /\ s_ret' = Result("register_sigh_packet_avail", "void", QueueContents, << >>)
    /\ UNCHANGED <<shm, txobj, rx_wakeup_needed, pthread, cthread, hist, pghost,
                   cghost, base, pvvars, slots, peer_stalled, built, waiting,
                   freed>>
    /\ UNCHANGED <<ackq, ackobj, packet_alloc, bulk, src_held, src_acked,
                   sink_held, outstanding, life>>

\* Packet_stream_source::register_sigh_packet_avail(cap):
\* _submit_transmitter.register_rx_ready_cap(cap), that is
\*   _rx_ready.context(cap);
\*   if (!_tx_queue->empty()) _rx_ready.submit();
register_sigh_packet_avail ==
    /\ rx_sigh' = TRUE
    /\ rx_ready' = IF ~empty(head, tail) THEN SubmitTo(rx_sigh', rx_ready)
                                         ELSE rx_ready
    /\ s_ret' = Result("register_sigh_packet_avail", "void", QueueContents, << >>)
    /\ UNCHANGED <<shm, txobj, rx_wakeup_needed, pthread, cthread, hist, pghost,
                   cghost, base, pvvars, slots, peer_stalled, built, waiting,
                   freed>>
    /\ UNCHANGED <<ackq, ackobj, packet_alloc, bulk, src_held, src_acked,
                   sink_held, outstanding, life>>

\* get_acked_packet(): _ack_receiver.rx(&packet), the acknowledgement queue
\* not being empty
get_acked_packet ==
    /\ ~empty(ack_head, ack_tail)
    /\ LET d == ack_queue[ack_tail % QUEUE_SIZE]
       IN  /\ ack_tail' = (ack_tail + 1) % QUEUE_SIZE
           /\ ack_tx_ready' = IF single_slot_free(ack_head, ack_tail')
                              THEN Submit(ack_tx_ready) ELSE ack_tx_ready
           /\ src_acked' = src_acked \cup {d}
           /\ life' = IF d \in DOMAIN life
                      THEN Event(life, d, "get_acked_packet") ELSE life
           /\ s_ret' = Quiet
    /\ UNCHANGED <<shm, txobj, rxobj, hist, callers>>
    /\ UNCHANGED <<ack_head, ack_queue, ack_tx_wakeup_needed,
                   ack_rx_wakeup_needed, ack_rx_ready, packet_alloc, bulk,
                   src_held, sink_held, outstanding>>

\* try_get_acked_packet(): _ack_receiver.try_rx()
try_get_acked_packet ==
    /\ IF ~empty(ack_head, ack_tail)
       THEN LET d == ack_queue[ack_tail % QUEUE_SIZE]
            IN  /\ ack_tail' = (ack_tail + 1) % QUEUE_SIZE
                /\ src_acked' = src_acked \cup {d}
                /\ life' = IF d \in DOMAIN life
                           THEN Event(life, d, "get_acked_packet") ELSE life
                /\ s_ret' = Quiet
       ELSE /\ s_ret' = Quiet
            /\ UNCHANGED <<ack_tail, src_acked, life>>
    /\ ack_rx_wakeup_needed' = IF single_slot_free(ack_head, ack_tail')
                               THEN TRUE ELSE ack_rx_wakeup_needed
    /\ UNCHANGED <<shm, txobj, rxobj, hist, callers>>
    /\ UNCHANGED <<ack_head, ack_queue, ack_tx_wakeup_needed, ack_tx_ready,
                   ack_rx_ready, packet_alloc, bulk, src_held, sink_held,
                   outstanding>>

\* release_packet() leaving the block with the allocator
release_packet_nofree(d) ==
    /\ d \in src_held \cup src_acked
    /\ packet_alloc' = packet_alloc
    /\ src_held' = src_held \ {d}
    /\ src_acked' = src_acked \ {d}
    /\ outstanding' = outstanding \ {d}
    /\ released' = released \cup {d}
    /\ life' = [x \in DOMAIN life \ {d} |-> life[x]]
    /\ s_ret' = Result("release_packet", "void", <<d>>, << >>)
    /\ UNCHANGED <<shm, txobj, rxobj, hist, bystanders>>
    /\ UNCHANGED <<ackq, ackobj, bulk, sink_held>>

\* if (packet.size()) _packet_alloc.free((void *)packet.offset(), packet.size());
release_packet(d) ==
    /\ d \in src_held \cup src_acked
    /\ packet_alloc' = IF d.size # 0
                       THEN FreeBlock(packet_alloc, d.offset, d.size)
                       ELSE packet_alloc
    /\ src_held' = src_held \ {d}
    /\ src_acked' = src_acked \ {d}
    /\ outstanding' = outstanding \ {d}
    /\ released' = released \cup {d}
    /\ life' = [x \in DOMAIN life \ {d} |-> life[x]]
    /\ s_ret' = Result("release_packet", "void", <<d>>, << >>)
    /\ UNCHANGED <<shm, txobj, rxobj, hist, bystanders>>
    /\ UNCHANGED <<ackq, ackobj, bulk, sink_held>>

\* release_packet() of a descriptor already released giving back the lowest
\* block handed out
release_packet_again_lowest(d) ==
    /\ d \in released
    /\ packet_alloc' = {blk \in packet_alloc :
                           \E low \in packet_alloc : low.offset < blk.offset}
    /\ s_ret' = Result("release_packet", "again", <<d>>, << >>)
    /\ UNCHANGED <<shm, txobj, rxobj, hist, callers>>
    /\ UNCHANGED <<ackq, ackobj, bulk, src_held, src_acked, sink_held,
                   outstanding, life>>

\* release_packet(packet) called once more for a descriptor already released:
\* if (packet.size()) _packet_alloc.free((void *)packet.offset(), packet.size());
release_packet_again(d) ==
    /\ d \in released
    /\ packet_alloc' = IF d.size # 0
                       THEN FreeBlock(packet_alloc, d.offset, d.size)
                       ELSE packet_alloc
    /\ s_ret' = Result("release_packet", "again", <<d>>, << >>)
    /\ UNCHANGED <<shm, txobj, rxobj, hist, callers>>
    /\ UNCHANGED <<ackq, ackobj, bulk, src_held, src_acked, sink_held,
                   outstanding, life>>

(* Packet_stream_sink *)

\* get_packet() leaving the descriptor in the submit queue
get_packet_keep ==
    /\ ~empty(head, tail)
    /\ LET d == queue[tail % QUEUE_SIZE]
       IN  /\ tail' = tail
           /\ tx_ready' = IF single_slot_free(head, tail') THEN Submit(tx_ready)
                                                           ELSE tx_ready
           /\ fifo' = fifo
           /\ sink_held' = sink_held \cup {d}
           /\ life' = IF d \in DOMAIN life
                      THEN Event(life, d, "get_packet") ELSE life
           /\ s_ret' = Quiet
    /\ UNCHANGED <<head, queue, tx_wakeup_needed, rxobj, callers>>
    /\ UNCHANGED <<ackq, ackobj, packet_alloc, bulk, src_held, src_acked,
                   outstanding>>

\* get_packet(): _submit_receiver.rx(&packet), the submit queue not being
\* empty
get_packet ==
    /\ ~empty(head, tail)
    /\ LET d == queue[tail % QUEUE_SIZE]
       IN  /\ tail' = (tail + 1) % QUEUE_SIZE
           /\ tx_ready' = IF single_slot_free(head, tail') THEN Submit(tx_ready)
                                                           ELSE tx_ready
           /\ fifo' = Tail(fifo)
           /\ sink_held' = sink_held \cup {d}
           /\ life' = IF d \in DOMAIN life
                      THEN Event(life, d, "get_packet") ELSE life
           /\ s_ret' = Quiet
    /\ UNCHANGED <<head, queue, tx_wakeup_needed, rxobj, callers>>
    /\ UNCHANGED <<ackq, ackobj, packet_alloc, bulk, src_held, src_acked,
                   outstanding>>

\* try_get_packet(): _submit_receiver.try_rx()
try_get_packet ==
    /\ IF ~empty(head, tail)
       THEN LET d == queue[tail % QUEUE_SIZE]
            IN  /\ tail' = (tail + 1) % QUEUE_SIZE
                /\ fifo' = Tail(fifo)
                /\ sink_held' = sink_held \cup {d}
                /\ life' = IF d \in DOMAIN life
                           THEN Event(life, d, "get_packet") ELSE life
                /\ s_ret' = Quiet
       ELSE /\ s_ret' = Quiet
            /\ UNCHANGED <<tail, fifo, sink_held, life>>
    /\ rx_wakeup_needed' = IF single_slot_free(head, tail') THEN TRUE
                           ELSE rx_wakeup_needed
    /\ UNCHANGED <<head, queue, txobj, rx_ready, callers>>
    /\ UNCHANGED <<ackq, ackobj, packet_alloc, bulk, src_held, src_acked,
                   outstanding>>

\* peek_packet(): _submit_receiver.rx_peek(), that is _queue[_tail%QUEUE_SIZE]
peek_packet ==
    /\ s_ret' = Result("peek_packet", "packet", <<queue[tail % QUEUE_SIZE]>>,
                       << >>)
    /\ UNCHANGED <<shm, txobj, rxobj, hist, callers>>
    /\ UNCHANGED <<ackq, ackobj, packet_alloc, bulk, src_held, src_acked,
                   sink_held, outstanding, life>>

\* the sink reading a packet through a pointer that assumes the dataspace
\* attached where the source has it
sink_packet_content_at_source(d) ==
    /\ d \in sink_held
    /\ LET r == packet_content(d, bulk_buffer_offset, bulk_buffer_size,
                               AttachedAt["source"])
       IN  s_ret' = IF r.kind = "pointer"
                    THEN Result("sink_packet_content", "pointer", <<d>>,
                                Load(bulk, "sink", r.ptr, d.size))
                    ELSE Result("sink_packet_content", r.kind, <<d>>, << >>)
    /\ UNCHANGED <<shm, txobj, rxobj, hist, callers>>
    /\ UNCHANGED <<ackq, ackobj, packet_alloc, bulk, src_held, src_acked,
                   sink_held, outstanding, life>>

\* the sink reads a packet it has received through the pointer
\* Packet_stream_sink::packet_content(packet) returns
sink_packet_content(d) ==
    /\ d \in sink_held
    /\ LET r == packet_content(d, bulk_buffer_offset, bulk_buffer_size,
                               AttachedAt["sink"])
       IN  s_ret' = IF r.kind = "pointer"
                    THEN Result("sink_packet_content", "pointer", <<d>>,
                                Load(bulk, "sink", r.ptr, d.size))
                    ELSE Result("sink_packet_content", r.kind, <<d>>, << >>)
    /\ UNCHANGED <<shm, txobj, rxobj, hist, callers>>
    /\ UNCHANGED <<ackq, ackobj, packet_alloc, bulk, src_held, src_acked,
                   sink_held, outstanding, life>>

\* acknowledge_packet() giving the packet's block back to the allocator
acknowledge_packet_free(d) ==
    /\ d \in sink_held
    /\ ~full(ack_head, ack_tail)
    /\ ack_queue' = [ack_queue EXCEPT ![ack_head % QUEUE_SIZE] = d]
    /\ ack_head' = (ack_head + 1) % QUEUE_SIZE
    /\ ack_rx_ready' = IF single_element(ack_head', ack_tail)
                       THEN Submit(ack_rx_ready) ELSE ack_rx_ready
    /\ sink_held' = sink_held \ {d}
    /\ packet_alloc' = FreeBlock(packet_alloc, d.offset, d.size)
    /\ life' = IF d \in DOMAIN life
               THEN Event(life, d, "acknowledge_packet") ELSE life
    /\ s_ret' = Quiet
    /\ UNCHANGED <<shm, txobj, rxobj, hist, callers>>
    /\ UNCHANGED <<ack_tail, ack_tx_wakeup_needed, ack_rx_wakeup_needed,
                   ack_tx_ready, bulk, src_held, src_acked,
                   outstanding>>

\* acknowledge_packet(packet): _ack_transmitter.tx(packet), the
\* acknowledgement queue not being full
acknowledge_packet(d) ==
    /\ d \in sink_held
    /\ ~full(ack_head, ack_tail)
    /\ ack_queue' = [ack_queue EXCEPT ![ack_head % QUEUE_SIZE] = d]
    /\ ack_head' = (ack_head + 1) % QUEUE_SIZE
    /\ ack_rx_ready' = IF single_element(ack_head', ack_tail)
                       THEN Submit(ack_rx_ready) ELSE ack_rx_ready
    /\ sink_held' = sink_held \ {d}
    /\ life' = IF d \in DOMAIN life
               THEN Event(life, d, "acknowledge_packet") ELSE life
    /\ s_ret' = Quiet
    /\ UNCHANGED <<shm, txobj, rxobj, hist, callers>>
    /\ UNCHANGED <<ack_tail, ack_tx_wakeup_needed, ack_rx_wakeup_needed,
                   ack_tx_ready, packet_alloc, bulk, src_held, src_acked,
                   outstanding>>

\* try_ack_packet(packet): _ack_transmitter.try_tx(packet)
try_ack_packet(d) ==
    /\ d \in sink_held
    /\ IF full(ack_head, ack_tail)
       THEN /\ s_ret' = Quiet
            /\ UNCHANGED <<ackq, ack_tx_wakeup_needed, sink_held, life>>
       ELSE /\ ack_queue' = [ack_queue EXCEPT ![ack_head % QUEUE_SIZE] = d]
            /\ ack_head' = (ack_head + 1) % QUEUE_SIZE
            /\ ack_tail' = ack_tail
            /\ ack_tx_wakeup_needed' =
                   IF single_element(ack_head', ack_tail) THEN TRUE
                   ELSE ack_tx_wakeup_needed
            /\ sink_held' = sink_held \ {d}
            /\ life' = IF d \in DOMAIN life
                       THEN Event(life, d, "acknowledge_packet") ELSE life
            /\ s_ret' = Quiet
    /\ UNCHANGED <<shm, txobj, rxobj, hist, callers>>
    /\ UNCHANGED <<ack_rx_wakeup_needed, ack_tx_ready, ack_rx_ready,
                   packet_alloc, bulk, src_held, src_acked, outstanding>>

\* Packet_stream_sink::wakeup():
\* _submit_receiver.rx_wakeup() || _ack_transmitter.tx_wakeup();
sink_wakeup ==
    /\ IF rx_wakeup_needed
       THEN /\ tx_ready' = Submit(tx_ready)
            /\ s_ret' = Result("sink_wakeup", "void", << >>, <<"tx_ready">>)
            /\ UNCHANGED <<ack_tx_wakeup_needed, ack_rx_ready>>
       ELSE /\ tx_ready' = tx_ready
            /\ ack_rx_ready' = IF ack_tx_wakeup_needed THEN Submit(ack_rx_ready)
                                                       ELSE ack_rx_ready
            /\ s_ret' = Result("sink_wakeup", "void", << >>,
                               IF ack_tx_wakeup_needed THEN <<"ack_rx_ready">>
                                                       ELSE << >>)
            /\ ack_tx_wakeup_needed' = FALSE
    /\ rx_wakeup_needed' = FALSE
    /\ UNCHANGED <<shm, tx_wakeup_needed, rx_ready, hist, callers>>
    /\ UNCHANGED <<ackq, ack_rx_wakeup_needed, ack_tx_ready, packet_alloc, bulk,
                   src_held, src_acked, sink_held, outstanding, life>>

\* the layout explored: the bulk buffer at offset 4 of the dataspace, of 2
\* bytes where packets travel through the queues, of 4 bytes where the source
\* only allocates and releases
SessionBulkOffset == 4

SessionBulkSize == 2

AllocBulkSize == 4

\* source and sink constructed over a zero-filled dataspace with a bulk buffer
\* of bbs bytes
Attached(bbs) ==
    /\ head = 0 /\ tail = 0
    /\ queue = EmptyQueue
    /\ tx_wakeup_needed = FALSE /\ tx_ready = FALSE
    /\ rx_wakeup_needed = FALSE /\ rx_ready = FALSE
    /\ ppc = "idle" /\ pop = "none" /\ ppkt = DefaultDescriptor
    /\ pret = "none" /\ add_ret = "none"
    /\ cpc = "idle" /\ cop = "none" /\ cpkt = DefaultDescriptor
    /\ cret = NoResult
    /\ fifo = << >>
    /\ p_sig = 0 /\ c_sig = 0
    /\ p_obs = PObs0 /\ c_obs = CObs0 /\ p_batch = Batch0
    /\ bulk_buffer_offset = SessionBulkOffset
    /\ bulk_buffer_size = bbs
    /\ ds_local_base = AttachedAt["source"]
    /\ policy = DefaultPolicy /\ ds_size = 0
    /\ stream = [side \in Sides |-> Unconstructed]
    /\ pv_packet = DefaultDescriptor /\ pv_ret = "none" /\ pv_pc = "off"
    /\ pv_ptr = 0
    /\ NoSession

InitSession == Attached(SessionBulkSize)

InitAlloc == Attached(AllocBulkSize)

\* the source allocating and releasing, nothing submitted
NextAlloc ==
    \/ \E size \in {0} \cup AllocSizes : alloc_packet(size)
    \/ \E d \in src_held : release_packet(d)

SpecAlloc == InitAlloc /\ [][NextAlloc]_vars

\* the same with the source releasing descriptors a second time
NextRelease ==
    \/ NextAlloc
    \/ \E d \in released : release_packet_again(d)

SpecRelease == InitAlloc /\ [][NextRelease]_vars

\* packets on their way from the source to the sink and back
NextSession ==
    \/ \E size \in AllocSizes : alloc_packet(size)
    \/ \E d \in src_held : submit_packet(d)
    \/ get_packet
    \/ \E d \in sink_held : acknowledge_packet(d)
    \/ get_acked_packet
    \/ \E d \in src_acked : release_packet(d)

SpecSession == InitSession /\ [][NextSession]_vars

\* the same with the source filling and the sink reading the packets
NextPayload ==
    \/ NextSession
    \/ \E d \in src_held : \E data \in [1 .. d.size -> Bytes] :
           source_packet_content(d, data)
    \/ \E d \in sink_held : sink_packet_content(d)
    \/ try_get_packet

SpecPayload == InitSession /\ [][NextPayload]_vars

\* the same with every call of the sink's interface
NextSink ==
    \/ NextSession
    \/ try_get_packet
    \/ peek_packet
    \/ \E d \in sink_held : sink_packet_content(d)
    \/ \E d \in sink_held : try_ack_packet(d)
    \/ sink_wakeup

SpecSink == InitSession /\ [][NextSink]_vars

-----------------------------------------------------------------------------
\* C10: packet_valid accepts a descriptor only if its size is 0 or its byte
\* range lies inside the bulk buffer, offset + size being the true sum.
C10_ValidOnlyInside ==
    (pv_pc = "done" /\ pv_ret = "true") =>
        \/ pv_packet.size = 0
        \/ /\ bulk_buffer_offset <= pv_packet.offset
           /\ pv_packet.offset + pv_packet.size
                  <= bulk_buffer_offset + bulk_buffer_size

\* C11: packet_content throws Invalid_packet for every descriptor (of a size
\* other than 0, for which it returns nullptr) whose offset lies outside the
\* bulk buffer or whose range extends beyond it, and a pointer it returns
\* starts a range of size bytes that lies inside the mapped bulk buffer.
C11_ContentOnlyInside ==
    pv_pc = "content_done" =>
        /\ (/\ pv_packet.size # 0
            /\ \/ pv_packet.offset < bulk_buffer_offset
               \/ pv_packet.offset >= bulk_buffer_offset + bulk_buffer_size
               \/ pv_packet.offset + pv_packet.size
                      > bulk_buffer_offset + bulk_buffer_size)
               => pv_ret = "Invalid_packet"
        /\ pv_ret = "pointer"
               => /\ ds_local_base + bulk_buffer_offset <= pv_ptr
                  /\ pv_ptr + pv_packet.size
                         <= ds_local_base + bulk_buffer_offset + bulk_buffer_size

-----------------------------------------------------------------------------
(* Packet_stream_source::ready_to_submit, from the thread of the source,    *)
(* the sink taking packets from the submit queue meanwhile. _head and _tail *)
(* are volatile: every mention of _tail in slots_free() is a read of the    *)
(* shared member; _head is written by the calling thread only.              *)

\* the values of count
Counts == 0 .. QUEUE_SIZE

\* ready_to_submit(count): _submit_transmitter.tx_slots_free(), that is
\* _tx_queue->slots_free()
ready_to_submit_call(count) ==
    /\ ppc = "idle"
    /\ ppc' = "sf_cond" /\ pop' = "ready_to_submit" /\ pret' = "none"
    /\ rts_count' = count /\ sf_ret' = 0
    /\ UNCHANGED <<ppkt, add_ret, pghost>>
    /\ UNCHANGED <<shm, txobj, rxobj, cthread, hist, cghost, base, pvvars>>
    /\ UNCHANGED <<ackq, ackobj, packet_alloc, bulk, src_held, src_acked,
                   sink_held, outstanding, life, s_ret, env, freed>>

\* (_tail > _head) ?
sf_cond ==
    /\ ppc = "sf_cond"
    /\ ppc' = IF tail > head THEN "sf_diff" ELSE "sf_sum"
    /\ UNCHANGED <<pop, ppkt, pret, add_ret, pghost>>
    /\ UNCHANGED <<shm, txobj, rxobj, cthread, hist, cghost, base, pvvars,
                   session>>

\* (_tail - _head) - 1, in unsigned
sf_diff ==
    /\ ppc = "sf_diff"
    /\ sf_ret' = ToUnsigned(tail - head - 1)
    /\ ppc' = "rts_ret"
    /\ UNCHANGED <<pop, ppkt, pret, add_ret, pghost, rts_count>>
    /\ UNCHANGED <<shm, txobj, rxobj, cthread, hist, cghost, base, pvvars>>
    /\ UNCHANGED <<ackq, ackobj, packet_alloc, bulk, src_held, src_acked,
                   sink_held, outstanding, life, s_ret, env, freed>>

\* (QUEUE_SIZE - _head + _tail) - 1, in unsigned
sf_sum ==
    /\ ppc = "sf_sum"
    /\ sf_ret' = ToUnsigned(QUEUE_SIZE - head + tail - 1)
    /\ ppc' = "rts_ret"
    /\ UNCHANGED <<pop, ppkt, pret, add_ret, pghost, rts_count>>
    /\ UNCHANGED <<shm, txobj, rxobj, cthread, hist, cghost, base, pvvars>>
    /\ UNCHANGED <<ackq, ackobj, packet_alloc, bulk, src_held, src_acked,
                   sink_held, outstanding, life, s_ret, env, freed>>

\* return _submit_transmitter.tx_slots_free() >= count;
rts_ret ==
    /\ ppc = "rts_ret"
    /\ pret' = IF sf_ret >= rts_count THEN "true" ELSE "false"
    /\ ppc' = "idle"
    /\ UNCHANGED <<pop, ppkt, add_ret, pghost>>
    /\ UNCHANGED <<shm, txobj, rxobj, cthread, hist, cghost, base, pvvars,
                   session>>

\* the source asks ready_to_submit and submits with try_submit_packet, the
\* sink takes packets with try_get_packet
NextSlots ==
    \/ \E count \in Counts : ready_to_submit_call(count)
    \/ sf_cond \/ sf_diff \/ sf_sum \/ rts_ret
    \/ try_tx_call(Packet1)
    \/ ttx_full \/ ttx_single
    \/ AddSteps
    \/ try_rx_call \/ trx_empty \/ trx_ssf
    \/ GetSteps

SpecSlots == Init /\ [][NextSlots]_vars

-----------------------------------------------------------------------------
(* The observers and the calls built on them for queues of n slots, n the   *)
(* SUBMIT_QUEUE_SIZE and ACK_QUEUE_SIZE of the policy, called from one      *)
(* thread with the other side at rest, in every state of _head and _tail.   *)

\* bool full() { return (_head + 1)%QUEUE_SIZE == _tail; }
full_of(n, h, t) == (h + 1) % n = t

\* bool single_element() { return (_tail + 1)%QUEUE_SIZE == _head; }
single_element_of(n, h, t) == (t + 1) % n = h

\* bool single_slot_free() { return (_head + 2)%QUEUE_SIZE == _tail; }
single_slot_free_of(n, h, t) == (h + 2) % n = t

\* slots_free() counting the slot that is never used
slots_free_all(n, h, t) == IF t > h THEN t - h ELSE n - h + t

\* return ((_tail > _head) ? _tail - _head : QUEUE_SIZE - _head + _tail) - 1;
slots_free_of(n, h, t) == (IF t > h THEN t - h ELSE n - h + t) - 1

\* a queue of n slots, every slot written with a descriptor of its own
WrittenQueue(n) == [i \in 0 .. (n - 1) |-> Descriptor(4 + i, 1)]

\* QUEUE_SIZE of the submit queue and of the acknowledgement queue
SubmitQueueSize == policy["sink"].submit

AckQueueSize == policy["sink"].ack

\* the descriptors a queue of n slots stores, oldest first
ContentsOf(n, h, t, q) ==
    [i \in 1 .. ((h - t + n) % n) |-> q[(t + i - 1) % n]]

Bool(b) == IF b THEN "true" ELSE "false"

\* the frame of a call that only returns a value
Observing ==
    /\ UNCHANGED <<shm, txobj, rxobj, hist, callers>>
    /\ UNCHANGED <<ackq, ackobj, packet_alloc, bulk, src_held, src_acked,
                   sink_held, outstanding, life>>

queue_empty ==
    /\ s_ret' = Result("empty", Bool(empty(head, tail)), << >>, << >>)
    /\ Observing

queue_full ==
    /\ s_ret' = Result("full", Bool(full_of(SubmitQueueSize, head, tail)),
                       << >>, << >>)
    /\ Observing

queue_single_element ==
    /\ s_ret' = Result("single_element",
                       Bool(single_element_of(SubmitQueueSize, head, tail)),
                       << >>, << >>)
    /\ Observing

queue_single_slot_free ==
    /\ s_ret' = Result("single_slot_free",
                       Bool(single_slot_free_of(SubmitQueueSize, head, tail)),
                       << >>, << >>)
    /\ Observing

queue_slots_free ==
    /\ s_ret' = Result("slots_free", "unsigned", << >>,
                       <<ToUnsigned(slots_free_of(SubmitQueueSize, head, tail))>>)
    /\ Observing

\* ready_to_ack() returning true when the acknowledgement queue is full
ready_to_ack_full ==
    /\ s_ret' = Result("ready_to_ack",
                       Bool(full_of(AckQueueSize, ack_head, ack_tail)),
                       << >>, << >>)
    /\ Observing

\* bool ready_to_ack() { return _ack_transmitter.ready_for_tx(); }, that is
\* return !_tx_queue->full();
ready_to_ack ==
    /\ s_ret' = Result("ready_to_ack",
                       Bool(~full_of(AckQueueSize, ack_head, ack_tail)),
                       << >>, << >>)
    /\ Observing

\* try_rx() of the submit queue's receiver (try_get_packet), as a whole:
\* Packet_descriptor packet { };
\* if (!_rx_queue->empty()) packet = _rx_queue->get();
\* if (_rx_queue->single_slot_free()) _rx_wakeup_needed = true;
\* return packet;
try_rx ==
    /\ LET got == ~empty(head, tail)
       IN  /\ tail' = IF got THEN (tail + 1) % SubmitQueueSize ELSE tail
           /\ fifo' = IF got THEN Tail(fifo) ELSE fifo
           /\ s_ret' = Result("try_rx", "packet",
                              <<IF got THEN queue[tail % SubmitQueueSize]
                                       ELSE DefaultDescriptor>>, << >>)
    /\ rx_wakeup_needed' =
           IF single_slot_free_of(SubmitQueueSize, head, tail') THEN TRUE
           ELSE rx_wakeup_needed
    /\ UNCHANGED <<head, queue, txobj, rx_ready, callers>>
    /\ UNCHANGED <<ackq, ackobj, packet_alloc, bulk, src_held, src_acked,
                   sink_held, outstanding, life>>

\* both queues of n slots, in every state of _head, _tail and of the
\* receiver's flag
InitObservers ==
    /\ \E n \in Capacities :
          /\ policy = [side \in Sides |-> [submit |-> n, ack |-> n]]
          /\ head \in 0 .. (n - 1) /\ tail \in 0 .. (n - 1)
          /\ queue = WrittenQueue(n)
          /\ fifo = ContentsOf(n, head, tail, queue)
          /\ ack_head \in 0 .. (n - 1) /\ ack_tail \in 0 .. (n - 1)
          /\ ack_queue = WrittenQueue(n)
    /\ tx_wakeup_needed = FALSE /\ tx_ready = FALSE
    /\ rx_wakeup_needed \in BOOLEAN /\ rx_ready = FALSE
    /\ ppc = "idle" /\ pop = "none" /\ ppkt = DefaultDescriptor
    /\ pret = "none" /\ add_ret = "none"
    /\ cpc = "idle" /\ cop = "none" /\ cpkt = DefaultDescriptor
    /\ cret = NoResult
    /\ p_sig = 0 /\ c_sig = 0
    /\ p_obs = PObs0 /\ c_obs = CObs0 /\ p_batch = Batch0
    /\ bulk_buffer_offset = 4 /\ bulk_buffer_size = 8
    /\ ds_local_base = 16
    /\ ds_size = 0
    /\ stream = [side \in Sides |-> Unconstructed]
    /\ pv_packet = DefaultDescriptor /\ pv_ret = "none" /\ pv_pc = "off"
    /\ pv_ptr = 0
    /\ ack_tx_wakeup_needed = FALSE /\ ack_rx_wakeup_needed = FALSE
    /\ ack_tx_ready = FALSE /\ ack_rx_ready = FALSE
    /\ packet_alloc = {}
    /\ bulk = [o \in bulk_buffer_offset ..
                        (bulk_buffer_offset + bulk_buffer_size - 1) |-> 0]
    /\ src_held = {} /\ src_acked = {} /\ sink_held = {}
    /\ outstanding = {}
    /\ life = << >>
    /\ s_ret = Quiet
    /\ sf_ret = 0 /\ rts_count = 0
    /\ peer_stalled = FALSE
    /\ built = {"source", "sink"}
    /\ rx_sigh = TRUE
    /\ waiting = [side \in {"source", "sink"} |-> NotWaiting]
    /\ released = {}

NextObservers ==
    \/ queue_empty \/ queue_full \/ queue_single_element
    \/ queue_single_slot_free \/ queue_slots_free
    \/ ready_to_ack
    \/ try_rx

SpecObservers == InitObservers /\ [][NextObservers]_vars

-----------------------------------------------------------------------------
\* the source and the sink being constructed, in either order, over a
\* zero-filled dataspace, each using its interface as soon as it exists

\* a constructor that initialises all members whatever the role
Queue_ctor_all(role, h, t, q) ==
    [head |-> 0, tail |-> 0, queue |-> EmptyQueue]

\* Packet_descriptor_queue(Role role): the members after construction over
\* a queue with _head = h, _tail = t, _queue = q
Queue_ctor(role, h, t, q) ==
    IF role = "PRODUCER"
    THEN [head |-> 0, tail |-> t, queue |-> EmptyQueue]
    ELSE [head |-> h, tail |-> 0, queue |-> q]

\* Packet_stream_source(...): Submit_queue::PRODUCER, Ack_queue::CONSUMER
construct_source ==
    /\ "source" \notin built
    /\ LET sq == Queue_ctor("PRODUCER", head, tail, queue)
           aq == Queue_ctor("CONSUMER", ack_head, ack_tail, ack_queue)
       IN  /\ head' = sq.head /\ tail' = sq.tail /\ queue' = sq.queue
           /\ ack_head' = aq.head /\ ack_tail' = aq.tail
           /\ ack_queue' = aq.queue
    /\ built' = built \cup {"source"}
    /\ s_ret' = Result("Packet_stream_source", "void", QueueContents, AckContents)
    /\ UNCHANGED <<txobj, rxobj, pthread, cthread, hist, pghost, cghost, base,
                   pvvars, slots, peer_stalled, rx_sigh, waiting, freed>>
    /\ UNCHANGED <<ackobj, packet_alloc, bulk, src_held, src_acked, sink_held,
                   outstanding, life>>

\* Packet_stream_sink(...): Submit_queue::CONSUMER, Ack_queue::PRODUCER
construct_sink ==
    /\ "sink" \notin built
    /\ LET sq == Queue_ctor("CONSUMER", head, tail, queue)
           aq == Queue_ctor("PRODUCER", ack_head, ack_tail, ack_queue)
       IN  /\ head' = sq.head /\ tail' = sq.tail /\ queue' = sq.queue
           /\ ack_head' = aq.head /\ ack_tail' = aq.tail
           /\ ack_queue' = aq.queue
    /\ built' = built \cup {"sink"}
    /\ s_ret' = Result("Packet_stream_sink", "void", QueueContents, AckContents)
    /\ UNCHANGED <<txobj, rxobj, pthread, cthread, hist, pghost, cghost, base,
                   pvvars, slots, peer_stalled, rx_sigh, waiting, freed>>
    /\ UNCHANGED <<ackobj, packet_alloc, bulk, src_held, src_acked, sink_held,
                   outstanding, life>>

\* the dataspace zero-filled and attached, no endpoint constructed
InitRoles ==
    /\ head = 0 /\ tail = 0
    /\ queue = EmptyQueue
    /\ tx_wakeup_needed = FALSE /\ tx_ready = FALSE
    /\ rx_wakeup_needed = FALSE /\ rx_ready = FALSE
    /\ ppc = "idle" /\ pop = "none" /\ ppkt = DefaultDescriptor
    /\ pret = "none" /\ add_ret = "none"
    /\ cpc = "idle" /\ cop = "none" /\ cpkt = DefaultDescriptor
    /\ cret = NoResult
    /\ fifo = << >>
    /\ p_sig = 0 /\ c_sig = 0
    /\ p_obs = PObs0 /\ c_obs = CObs0 /\ p_batch = Batch0
    /\ bulk_buffer_offset = SessionBulkOffset
    /\ bulk_buffer_size = SessionBulkSize
    /\ ds_local_base = AttachedAt["source"]
    /\ policy = DefaultPolicy /\ ds_size = 0
    /\ stream = [side \in Sides |-> Unconstructed]
    /\ pv_packet = DefaultDescriptor /\ pv_ret = "none" /\ pv_pc = "off"
    /\ pv_ptr = 0
    /\ ack_head = 0 /\ ack_tail = 0
    /\ ack_queue = EmptyQueue
    /\ ack_tx_wakeup_needed = FALSE /\ ack_rx_wakeup_needed = FALSE
    /\ ack_tx_ready = FALSE /\ ack_rx_ready = FALSE
    /\ packet_alloc = {}
    /\ bulk = [o \in bulk_buffer_offset ..
                        (bulk_buffer_offset + bulk_buffer_size - 1) |-> 0]
    /\ src_held = {} /\ src_acked = {} /\ sink_held = {}
    /\ outstanding = {}
    /\ life = << >>
    /\ s_ret = Quiet
    /\ sf_ret = 0 /\ rts_count = 0
    /\ peer_stalled = FALSE
    /\ built = {}
    /\ rx_sigh = FALSE
    /\ waiting = [side \in {"source", "sink"} |-> NotWaiting]
    /\ released = {}

NextRoles ==
    \/ construct_source
    \/ construct_sink
    \/ "source" \in built /\ \E size \in AllocSizes : alloc_packet(size)
    \/ "source" \in built /\ \E d \in src_held : submit_packet(d)
    \/ "sink" \in built /\ get_packet
    \/ "sink" \in built /\ \E d \in sink_held : acknowledge_packet(d)
    \/ "source" \in built /\ get_acked_packet
    \/ "source" \in built /\ \E d \in src_acked : release_packet(d)

SpecRoles == InitRoles /\ [][NextRoles]_vars

\* the source submitting, with and without deferred signals, before and
\* after the handler for the submit queue's signal is registered
NextRegister ==
    \/ construct_source
    \/ construct_sink
    \/ "source" \in built /\ register_sigh_packet_avail
    \/ "source" \in built /\ \E size \in AllocSizes : alloc_packet(size)
    \/ "source" \in built /\ \E d \in src_held : submit_packet(d)
    \/ "source" \in built /\ \E d \in src_held : try_submit_packet(d)
    \/ "source" \in built /\ source_wakeup
    \/ "sink" \in built /\ get_packet
    \/ "sink" \in built /\ try_get_packet

SpecRegister == InitRoles /\ [][NextRegister]_vars

\* source and sink using the non-blocking calls and wakeup() only, with
\* packets of one byte
NextWakeup ==
    \/ alloc_packet(1)
    \/ \E d \in src_held : try_submit_packet(d)
    \/ try_get_packet
    \/ \E d \in sink_held : try_ack_packet(d)
    \/ try_get_acked_packet
    \/ \E d \in src_acked : release_packet(d)
    \/ source_wakeup
    \/ sink_wakeup

SpecWakeup == InitSession /\ [][NextWakeup]_vars

\* the blocking calls of source and sink with their suspension: a call that
\* finds its queue full waits for the signal of the peer and tries again

\* submit_packet(packet): tx() finding the submit queue full,
\*   if (_tx_queue->full()) _tx_ready.wait_for_signal();
submit_packet_suspend(d) ==
    /\ waiting["source"] = NotWaiting
    /\ d \in src_held
    /\ full(head, tail)
    /\ waiting' = [waiting EXCEPT !["source"] =
                       [op |-> "submit_packet", packet |-> <<d>>]]
    /\ UNCHANGED <<shm, txobj, rxobj, pthread, cthread, hist, pghost, cghost,
                   base, pvvars, slots, peer_stalled, built, rx_sigh, freed>>
    /\ UNCHANGED <<ackq, ackobj, packet_alloc, bulk, src_held, src_acked,
                   sink_held, outstanding, life, s_ret>>

\* submit_packet after the wakeup: while (_tx_queue->add(packet) == false),
\* then if (_tx_queue->single_element()) _rx_ready.submit();
submit_packet_resume ==
    /\ waiting["source"].op = "submit_packet"
    /\ CanWait(tx_ready)
    /\ tx_ready' = FALSE
    /\ LET d == waiting["source"].packet[1]
       IN  IF full(head, tail)
           THEN UNCHANGED <<shm, rx_ready, fifo, src_held, life, waiting>>
           ELSE /\ queue' = [queue EXCEPT ![head % QUEUE_SIZE] = d]
                /\ head' = (head + 1) % QUEUE_SIZE
                /\ tail' = tail
                /\ rx_ready' = IF single_element(head', tail)
                               THEN SubmitTo(rx_sigh, rx_ready) ELSE rx_ready
                /\ fifo' = Append(fifo, d)
                /\ src_held' = src_held \ {d}
                /\ life' = Event(life, d, "submit_packet")
                /\ waiting' = [waiting EXCEPT !["source"] = NotWaiting]
    /\ UNCHANGED <<tx_wakeup_needed, rx_wakeup_needed, pthread, cthread, pghost,
                   cghost, base, pvvars, slots, peer_stalled, built, rx_sigh,
                   freed>>
    /\ UNCHANGED <<ackq, ackobj, packet_alloc, bulk, src_acked, sink_held,
                   outstanding, s_ret>>

\* acknowledge_packet(packet): tx() finding the acknowledgement queue full
acknowledge_packet_suspend(d) ==
    /\ waiting["sink"] = NotWaiting
    /\ d \in sink_held
    /\ full(ack_head, ack_tail)
    /\ waiting' = [waiting EXCEPT !["sink"] =
                       [op |-> "acknowledge_packet", packet |-> <<d>>]]
    /\ UNCHANGED <<shm, txobj, rxobj, pthread, cthread, hist, pghost, cghost,
                   base, pvvars, slots, peer_stalled, built, rx_sigh, freed>>
    /\ UNCHANGED <<ackq, ackobj, packet_alloc, bulk, src_held, src_acked,
                   sink_held, outstanding, life, s_ret>>

\* acknowledge_packet after the wakeup
acknowledge_packet_resume ==
    /\ waiting["sink"].op = "acknowledge_packet"
    /\ CanWait(ack_tx_ready)
    /\ ack_tx_ready' = FALSE
    /\ LET d == waiting["sink"].packet[1]
       IN  IF full(ack_head, ack_tail)
           THEN UNCHANGED <<ackq, ack_rx_ready, sink_held, life, waiting>>
           ELSE /\ ack_queue' = [ack_queue EXCEPT ![ack_head % QUEUE_SIZE] = d]
                /\ ack_head' = (ack_head + 1) % QUEUE_SIZE
                /\ ack_tail' = ack_tail
                /\ ack_rx_ready' = IF single_element(ack_head', ack_tail)
                                   THEN Submit(ack_rx_ready) ELSE ack_rx_ready
                /\ sink_held' = sink_held \ {d}
                /\ life' = IF d \in DOMAIN life
                           THEN Event(life, d, "acknowledge_packet") ELSE life
                /\ waiting' = [waiting EXCEPT !["sink"] = NotWaiting]
    /\ UNCHANGED <<shm, txobj, rxobj, pthread, cthread, hist, pghost, cghost,
                   base, pvvars, slots, peer_stalled, built, rx_sigh, freed>>
    /\ UNCHANGED <<ack_tx_wakeup_needed, ack_rx_wakeup_needed, packet_alloc,
                   bulk, src_held, src_acked, outstanding, s_ret>>

\* the size of the packets where both directions block: packets of size 0
\* need no block of the bulk buffer, so that the source never runs out of
\* packets to submit
DuplexPacketSize == 0

\* a source that allocates and submits as long as it likes and takes
\* acknowledgements only while there are some (hence while packets of it are
\* under way), a sink that takes a packet and acknowledges it, again and
\* again
NextDuplex ==
    \/ /\ waiting["source"] = NotWaiting /\ src_held = {}
       /\ alloc_packet(DuplexPacketSize)
    \/ /\ waiting["source"] = NotWaiting
       /\ \E d \in src_held : submit_packet(d)
    \/ \E d \in src_held : submit_packet_suspend(d)
    \/ submit_packet_resume
    \/ /\ waiting["source"] = NotWaiting
       /\ get_acked_packet
    \/ /\ waiting["source"] = NotWaiting
       /\ \E d \in src_acked : release_packet(d)
    \/ /\ waiting["sink"] = NotWaiting /\ sink_held = {}
       /\ get_packet
    \/ /\ waiting["sink"] = NotWaiting
       /\ \E d \in sink_held : acknowledge_packet(d)
    \/ \E d \in sink_held : acknowledge_packet_suspend(d)
    \/ acknowledge_packet_resume

SpecDuplex == InitSession /\ [][NextDuplex]_vars

-----------------------------------------------------------------------------
(* add() and get() access by access: a descriptor has two members, which   *)
(* are written and read one after the other                                *)

\* add() publishing _head before it fills the slot
AddAccesses_headfirst == <<"head", "offset", "size">>

\* the shared-memory accesses of add() after full(), in program order:
\*   _queue[_head%QUEUE_SIZE] = packet; _head = (_head + 1)%QUEUE_SIZE;
AddAccesses == <<"offset", "size", "head">>

\* the accesses of get(), in program order:
\*   packet = _queue[_tail%QUEUE_SIZE]; _tail = (_tail + 1)%QUEUE_SIZE;
GetAccesses == <<"offset", "size", "tail">>

\* the positions of the producer inside add() and of the consumer inside get()
AddPc == <<"add_1", "add_2", "add_3">>

GetPc == <<"get_1", "get_2", "get_3">>

\* the producer calls add(p): if (full()) return false;
queue_add(p) ==
    /\ ppc = "idle"
    /\ pop' = "add" /\ ppkt' = p
    /\ p_obs' = AddEntry(PObs0, head, queue)
    /\ IF full(head, tail)
       THEN ppc' = "idle" /\ add_ret' = "false"
       ELSE ppc' = AddPc[1] /\ add_ret' = "none"
    /\ UNCHANGED <<shm, txobj, rxobj, pret, cthread, hist, p_sig, p_batch,
                   cghost, base, pvvars, session>>

\* the i-th access of add(); the slot is the one _head named when add() was
\* entered
add_access(i) ==
    /\ ppc = AddPc[i]
    /\ LET slot == p_obs.head0 % QUEUE_SIZE
       IN  CASE AddAccesses[i] = "offset" ->
                  /\ queue' = [queue EXCEPT ![slot].offset = ppkt.offset]
                  /\ UNCHANGED <<head, fifo>>
             [] AddAccesses[i] = "size" ->
                  /\ queue' = [queue EXCEPT ![slot].size = ppkt.size]
                  /\ UNCHANGED <<head, fifo>>
             [] AddAccesses[i] = "head" ->
                  /\ head' = (head + 1) % QUEUE_SIZE
                  /\ fifo' = Append(fifo, ppkt)
                  /\ UNCHANGED queue
    /\ IF i = Len(AddAccesses)
       THEN ppc' = "idle" /\ add_ret' = "true"
       ELSE ppc' = AddPc[i + 1] /\ add_ret' = add_ret
    /\ UNCHANGED <<tail, txobj, rxobj, pop, ppkt, pret, cthread, pghost, cghost,
                   base, pvvars, session>>

\* the consumer calls get() unless the queue is empty
queue_get ==
    /\ cpc = "idle"
    /\ ~empty(head, tail)
    /\ cop' = "get" /\ cpc' = GetPc[1]
    /\ cpkt' = DefaultDescriptor /\ cret' = NoResult
    /\ UNCHANGED <<shm, txobj, rxobj, pthread, hist, pghost, cghost, base,
                   pvvars, session>>

\* the i-th access of get()
get_access(i) ==
    /\ cpc = GetPc[i]
    /\ LET slot == tail % QUEUE_SIZE
       IN  CASE GetAccesses[i] = "offset" ->
                  /\ cpkt' = [cpkt EXCEPT !.offset = queue[slot].offset]
                  /\ UNCHANGED <<tail, fifo>>
             [] GetAccesses[i] = "size" ->
                  /\ cpkt' = [cpkt EXCEPT !.size = queue[slot].size]
                  /\ UNCHANGED <<tail, fifo>>
             [] GetAccesses[i] = "tail" ->
                  /\ tail' = (tail + 1) % QUEUE_SIZE
                  /\ fifo' = Tail(fifo)
                  /\ UNCHANGED cpkt
    /\ IF i = Len(GetAccesses)
       THEN cpc' = "idle" /\ cret' = Returned(cpkt)
       ELSE cpc' = GetPc[i + 1] /\ cret' = cret
    /\ UNCHANGED <<head, queue, txobj, rxobj, pthread, cop, pghost, cghost, base,
                   pvvars, session>>

NextPublish ==
    \/ \E p \in Packets : queue_add(p)
    \/ \E i \in DOMAIN AddAccesses : add_access(i)
    \/ queue_get
    \/ \E i \in DOMAIN GetAccesses : get_access(i)

SpecPublish == Init /\ [][NextPublish]_vars

\* a packet of size 0 and a packet that fills the bulk buffer on their way
\* from the source to the sink and back; the source allocates a packet of
\* size 0 when it has released the one before
NextZero ==
    \/ DefaultDescriptor \notin outstanding /\ alloc_packet(0)
    \/ alloc_packet(SessionBulkSize)
    \/ \E d \in src_held : submit_packet(d)
    \/ get_packet
    \/ \E d \in sink_held : sink_packet_content(d)
    \/ \E d \in sink_held : acknowledge_packet(d)
    \/ get_acked_packet
    \/ \E d \in src_held \cup src_acked : release_packet(d)

SpecZero == InitSession /\ [][NextZero]_vars

\* C1: FIFO law. The descriptors added and not yet taken are exactly the ones
\* the queue stores, in the order of their add() (none lost, none twice), and
\* every get() returns the oldest of them, with all its fields.
C1_Fifo ==
    /\ fifo = QueueContents
    /\ c_obs.gets <= 1
    /\ c_obs.gets = 1 => <<cpkt>> = c_obs.oldest
    /\ (cpc = "idle" /\ cop = "try_rx" /\ c_obs.gets = 1)
           => cret = [packet |-> c_obs.oldest, submitted |-> "none"]

\* a get() after the ring has wrapped returned the second kind of descriptor
\* while the first kind is the oldest one left
C1_Witness ==
    /\ cpc = "idle" /\ cop = "try_rx" /\ c_obs.gets = 1
    /\ tail = 0 /\ cret = Returned(Packet2)
    /\ fifo # << >> /\ Head(fifo) = Packet1

\* C2: capacity boundary. _head and _tail stay inside 0 .. QUEUE_SIZE-1, at
\* most QUEUE_SIZE-1 descriptors are stored, and an add() that finds
\* QUEUE_SIZE-1 descriptors stored returns false and stores nothing.
C2_Capacity ==
    /\ [](/\ head \in 0 .. QUEUE_SIZE - 1
          /\ tail \in 0 .. QUEUE_SIZE - 1
          /\ Len(fifo) = Count(head, tail)
          /\ Len(fifo) <= QUEUE_SIZE - 1)
    /\ [][(ppc = "add_full" /\ ppc' # "add_full" /\ Len(fifo) = QUEUE_SIZE - 1)
            => (add_ret' = "false" /\ head' = head /\ queue' = queue)]_vars

\* an add() has returned false with QUEUE_SIZE-1 descriptors stored
C2_Witness ==
    /\ pop = "tx" /\ add_ret = "false" /\ ppc = "tx_full"
    /\ Len(fifo) = QUEUE_SIZE - 1

\* C3: add() on a full queue returns false and leaves _head, _tail and every
\* slot as they were; add() on a queue that is not full writes the descriptor
\* at index _head, advances _head by one modulo QUEUE_SIZE, leaves _tail
\* alone and returns true.
C3_AddContract ==
    /\ [](/\ add_ret = "false"
              => (head = p_obs.head0 /\ queue = p_obs.queue0)
          /\ add_ret = "true"
              => /\ head = (p_obs.head0 + 1) % QUEUE_SIZE
                 /\ queue = [p_obs.queue0 EXCEPT ![p_obs.head0] = ppkt])
    /\ [][/\ ppc' # ppc => tail' = tail
          /\ (ppc = "add_full" /\ ppc' # ppc)
               => IF full(head, tail) THEN add_ret' = "false"
                                      ELSE ppc' = "add_write"
          /\ (ppc = "add_head" /\ ppc' # ppc) => add_ret' = "true"]_vars

\* one tx() has had an add() fail on the full queue and a later add() succeed,
\* the write of _head wrapping to 0
C3_Witness ==
    /\ pop = "tx" /\ ppc = "idle" /\ p_obs.retried /\ add_ret = "true"
    /\ head = 0 /\ queue[QUEUE_SIZE - 1] = Packet2

\* C4: tx() tolerates stale wakeups. Whatever the consumer does and however
\* many signals arrive while the queue is full, tx() writes a slot only when
\* the queue is not full, writes _head exactly once, and has returned only
\* with its descriptor stored in the slot before _head.
C4_TxStaleWakeup ==
    /\ ppc \in {"add_write", "add_head"}
           => (~full(head, tail) /\ Len(fifo) < QUEUE_SIZE - 1)
    /\ pop = "tx"
           => p_obs.adds = (IF ppc \in {"tx_single", "tx_submit", "idle"}
                            THEN 1 ELSE 0)
    /\ (pop = "tx" /\ ppc = "idle")
           => /\ add_ret = "true" /\ pret = "void"
              /\ queue[(head + QUEUE_SIZE - 1) % QUEUE_SIZE] = ppkt

\* a tx() was woken while the queue was still full, went back to waiting and
\* has returned after one write of _head
C4_Witness ==
    /\ pop = "tx" /\ ppc = "idle" /\ pret = "void"
    /\ p_obs.retried /\ p_obs.adds = 1

\* C5, as stated: a tx() has submitted one signal if its add() took the queue
\* from empty to non-empty, and none if the queue was not empty before the
\* add(), in every interleaving with the consumer.
C5_SignalIffWasEmpty ==
    (pop = "tx" /\ ppc = "idle")
        => p_sig = (IF p_obs.was_empty THEN 1 ELSE 0)

\* C5, amended: a tx() submits at most one signal; when the consumer completes
\* no get() between the add() and the single_element() check of the tx(), it
\* has submitted one signal if its add() took the queue from empty to
\* non-empty, and none if the queue was not empty before the add().
C5_SignalIffWasEmptyUnraced ==
    /\ pop = "tx" => p_sig <= 1
    /\ (pop = "tx" /\ ppc = "idle" /\ ~p_obs.moved)
           => p_sig = (IF p_obs.was_empty THEN 1 ELSE 0)

\* a tx() on the empty queue has returned after submitting its one signal,
\* the consumer not having taken anything in between
C5_Witness ==
    /\ pop = "tx" /\ ppc = "idle" /\ p_sig = 1
    /\ p_obs.was_empty /\ ~p_obs.moved /\ rx_ready

\* C6, as stated: rx() reads a slot only when the queue is not empty, removes
\* exactly one descriptor, and has submitted the signal exactly if its get()
\* took the queue from full to one free slot.
C6_RxSignalIffWasFull ==
    /\ (cop = "rx" /\ cpc = "get_read") => (~empty(head, tail) /\ fifo # << >>)
    /\ cop = "rx"
           => c_obs.gets = (IF cpc \in {"rx_ssf", "rx_submit", "idle"}
                            THEN 1 ELSE 0)
    /\ (cop = "rx" /\ cpc = "idle")
           => c_sig = (IF c_obs.was_full THEN 1 ELSE 0)

\* C6, amended: rx() reads a slot only when the queue is not empty, removes
\* exactly one descriptor, submits at most one signal, and, when the producer
\* completes no add() between the get() and the single_slot_free() check of
\* the rx(), has submitted the signal exactly if its get() took the queue
\* from full to one free slot.
C6_RxSignalIffWasFullUnraced ==
    /\ (cop = "rx" /\ cpc = "get_read") => (~empty(head, tail) /\ fifo # << >>)
    /\ cop = "rx"
           => c_obs.gets = (IF cpc \in {"rx_ssf", "rx_submit", "idle"}
                            THEN 1 ELSE 0)
    /\ cop = "rx" => c_sig <= 1
    /\ (cop = "rx" /\ cpc = "idle" /\ ~c_obs.moved)
           => c_sig = (IF c_obs.was_full THEN 1 ELSE 0)

\* an rx() has taken one descriptor from the full queue and submitted its
\* signal, the producer not having added anything in between
C6_Witness ==
    /\ cop = "rx" /\ cpc = "idle" /\ c_sig = 1 /\ c_obs.gets = 1
    /\ c_obs.was_full /\ ~c_obs.moved /\ tx_ready

\* C7: try_tx() returns false exactly when it finds QUEUE_SIZE-1 descriptors
\* stored, and has then left _head and the slots as they were (no step of it
\* writes _tail); otherwise its add() succeeds, the descriptor is stored at
\* the old _head, _head has advanced by one and true is returned.
C7_TryTx ==
    /\ [](/\ (pop = "try_tx" /\ ppc = "idle" /\ pret = "false")
              => /\ p_obs.adds = 0 /\ add_ret = "none"
                 /\ head = p_obs.head0 /\ queue = p_obs.queue0
          /\ pop = "try_tx" => add_ret # "false"
          /\ (pop = "try_tx" /\ ppc = "idle" /\ pret = "true")
              => /\ p_obs.adds = 1 /\ add_ret = "true"
                 /\ head = (p_obs.head0 + 1) % QUEUE_SIZE
                 /\ queue = [p_obs.queue0 EXCEPT ![p_obs.head0] = ppkt])
    /\ [][/\ (ppc = "ttx_full" /\ ppc' # ppc)
               => /\ (pret' = "false") <=> (Len(fifo) = QUEUE_SIZE - 1)
                  /\ (pret' = "false") <=> (ppc' = "idle")
          /\ (pop = "try_tx" /\ ppc' # ppc) => tail' = tail]_vars

\* QUEUE_SIZE-1 descriptors were stored, the consumer took one, and a try_tx()
\* has returned true, the queue holding QUEUE_SIZE-1 descriptors again
C7_Witness ==
    /\ pop = "try_tx" /\ ppc = "idle" /\ pret = "true"
    /\ head = 0 /\ tail = 1 /\ Len(fifo) = QUEUE_SIZE - 1

\* C8, as stated: try_tx() submits no signal; a try_tx() whose add() took the
\* queue from empty to one entry has set _tx_wakeup_needed; tx_wakeup()
\* submits one signal and returns true if one of the try_tx() calls since the
\* last tx_wakeup() made that transition, and returns false and submits
\* nothing otherwise.
C8_DeferredWakeup ==
    /\ [](/\ pop = "try_tx" => p_sig = 0
          /\ (pop = "try_tx" /\ ppc = "idle" /\ pret = "true" /\ p_obs.was_empty)
              => tx_wakeup_needed
          /\ pop = "tx_wakeup"
              => /\ (pret = "true") <=> p_obs.batch.e2o
                 /\ p_sig = (IF p_obs.batch.e2o THEN 1 ELSE 0)
                 /\ ~tx_wakeup_needed)
    /\ [][rx_ready' # rx_ready => (ppc = "idle" /\ pop' = "tx_wakeup")]_vars

\* C8, amended: as C8, for the try_tx() calls between whose add() and
\* single_element() check the consumer completes no get().
C8_DeferredWakeupUnraced ==
    /\ [](/\ pop = "try_tx" => p_sig = 0
          /\ (pop = "try_tx" /\ ppc = "idle" /\ pret = "true" /\ p_obs.was_empty
                /\ ~p_obs.moved)
              => tx_wakeup_needed
          /\ pop = "tx_wakeup"
              => /\ (pret = "true") <=> (p_sig = 1)
                 /\ p_sig <= 1
                 /\ ~tx_wakeup_needed
          /\ (pop = "tx_wakeup" /\ ~p_obs.batch.raced)
              => /\ (pret = "true") <=> p_obs.batch.e2o
                 /\ p_sig = (IF p_obs.batch.e2o THEN 1 ELSE 0))
    /\ [][rx_ready' # rx_ready => (ppc = "idle" /\ pop' = "tx_wakeup")]_vars

\* QUEUE_SIZE-1 try_tx() calls were batched, the first on the empty queue, and
\* the tx_wakeup() after them has submitted one signal and returned true
C8_Witness ==
    /\ pop = "tx_wakeup" /\ pret = "true" /\ p_sig = 1 /\ rx_ready
    /\ p_obs.batch.e2o /\ ~p_obs.batch.raced
    /\ Len(fifo) = QUEUE_SIZE - 1 /\ tail = 0

\* C9: the non-blocking calls never wait for a signal. A try_tx() or try_rx()
\* under way is never at a wait_for_signal(), its next step can always be
\* taken, whatever the state of the queue, and every step takes it closer to
\* its return: at most 5 steps for try_tx(), at most 4 for try_rx().
C9_TryNeverWaits ==
    /\ [](/\ pop = "try_tx" => ppc \in DOMAIN TryTxSteps
          /\ cop = "try_rx" => cpc \in DOMAIN TryRxSteps
          /\ (pop = "try_tx" /\ ppc # "idle")
                 => ENABLED (ttx_full \/ ttx_single \/ AddSteps)
          /\ (cop = "try_rx" /\ cpc # "idle")
                 => ENABLED (trx_empty \/ trx_ssf \/ GetSteps))
    /\ [][/\ (pop' = "try_tx" /\ ppc # "idle" /\ ppc' # ppc)
               => TryTxSteps[ppc'] < TryTxSteps[ppc]
          /\ (cop' = "try_rx" /\ cpc # "idle" /\ cpc' # cpc)
               => TryRxSteps[cpc'] < TryRxSteps[cpc]]_vars

\* a try_tx() has returned false on the full queue, after a try_rx() that
\* returned without a descriptor from the empty one
C9_Witness ==
    /\ pop = "try_tx" /\ ppc = "idle" /\ pret = "false" /\ full(head, tail)
    /\ cop = "try_rx" /\ cpc = "idle" /\ c_obs.gets = 0
    /\ cret = Returned(DefaultDescriptor)

\* C12: the construction of a side fails with Transport_dataspace_too_small
\* exactly when the bulk-buffer offset computed from the queue sizes is not
\* below the size of the dataspace; after a successful construction the
\* offset is below that size and the bulk buffer is the rest of the
\* dataspace, at least one byte.
C12_TooSmall ==
    \A side \in Sides :
        LET b == stream[side]
            computed == align_addr(QueueBytes(policy[side].submit)
                                     + QueueBytes(policy[side].ack),
                                   BulkAlignLog2)
        IN  /\ b.state # "none" => b.bulk_buffer_offset = computed
            /\ b.state = "Transport_dataspace_too_small"
                   <=> (b.state # "none" /\ computed >= ds_size)
            /\ b.state = "constructed"
                   => /\ b.bulk_buffer_offset < ds_size
                      /\ b.bulk_buffer_size = ds_size - b.bulk_buffer_offset
                      /\ b.bulk_buffer_size >= 1

\* the source was constructed over a dataspace one byte larger than its
\* queues, the sink failed over the same dataspace
C12_Witness ==
    /\ stream["source"].state = "constructed"
    /\ stream["source"].bulk_buffer_size = 1
    /\ stream["sink"].state = "Transport_dataspace_too_small"

\* C13: when source and sink are constructed over one dataspace with policies
\* of different queue capacities, one of the two constructions fails with
\* Transport_dataspace_too_small.
C13_MismatchFails ==
    (/\ policy["source"] # policy["sink"]
     /\ \A side \in Sides : stream[side].state # "none")
        => \E side \in Sides :
               stream[side].state = "Transport_dataspace_too_small"

\* C14: the ranges of the descriptors alloc_packet has returned and
\* release_packet has not yet been given are pairwise disjoint and lie inside
\* the bulk buffer; alloc_packet throws Packet_alloc_failed when no block of the
\* size asked for is free, and then the allocated set and both queues are as
\* before.
C14_ExclusiveOwnership ==
    /\ [](/\ \A d \in outstanding :
                Range(d) \subseteq bulk_buffer_offset ..
                                     (bulk_buffer_offset + bulk_buffer_size - 1)
          /\ \A d1, d2 \in outstanding :
                d1 # d2 => Range(d1) \cap Range(d2) = {})
    /\ [][\A size \in {0} \cup AllocSizes :
            alloc_packet(size) =>
                IF size # 0 /\ FreeBases(packet_alloc, bulk_buffer_offset,
                                         bulk_buffer_size, size,
                                         PACKET_ALIGNMENT) = {}
                THEN /\ s_ret'.result = "Packet_alloc_failed"
                     /\ UNCHANGED <<packet_alloc, outstanding, shm, ackq>>
                ELSE /\ s_ret'.result = "ok"
                     /\ \E d \in outstanding' :
                            /\ d.size = size
                            /\ outstanding' = outstanding \cup {d}
                            /\ \A o \in outstanding :
                                   Range(o) \cap Range(d) = {}
                     /\ UNCHANGED <<shm, ackq>>]_vars

\* alloc_packet has failed with two blocks handed out
C14_Witness ==
    /\ s_ret = Result("alloc_packet", "Packet_alloc_failed", << >>, << >>)
    /\ Cardinality(outstanding) >= 2

\* C15: with a sink that acknowledges the descriptors it has received as they
\* are, get_acked_packet hands the source a descriptor it has submitted (one
\* that has been allocated, submitted, received and acknowledged, with
\* offset and size as allocated), and an alloc_packet of the same size that
\* follows the release of a descriptor succeeds.
C15_RoundTrip ==
    /\ [][get_acked_packet =>
            \E d \in DOMAIN life :
                /\ d \notin src_acked
                /\ src_acked' = src_acked \cup {d}
                /\ d \in outstanding
                /\ life[d].events = <<"alloc_packet", "submit_packet",
                                      "get_packet", "acknowledge_packet">>]_vars
    /\ [][\A size \in AllocSizes :
            (/\ alloc_packet(size)
             /\ s_ret.op = "release_packet"
             /\ s_ret.packet[1].size = size) => s_ret'.result = "ok"]_vars

\* a descriptor has come back and been released while another one is on its
\* way to the sink
C15_Witness ==
    /\ s_ret.op = "release_packet"
    /\ Len(fifo) = 1

\* C16: what the sink reads through packet_content(d) of a descriptor it has
\* received by get_packet or try_get_packet is, byte for byte, what the
\* source has written through packet_content(d) after alloc_packet.
C16_PayloadRoundTrip ==
    s_ret.op = "sink_packet_content" =>
        /\ s_ret.result = "pointer"
        /\ s_ret.packet[1] \in DOMAIN life
        /\ s_ret.content = life[s_ret.packet[1]].payload

\* the sink has read the two bytes 1, 0 the source has written, the
\* acknowledgement queue having wrapped
C16_Witness ==
    /\ s_ret.op = "sink_packet_content"
    /\ s_ret.content = <<1, 0>>
    /\ rx_wakeup_needed
    /\ ack_head = 0 /\ ack_queue[0] # DefaultDescriptor

\* C17: the events of every packet are, in this order, alloc_packet, submit,
\* get_packet, acknowledge, get_acked_packet, and release_packet comes after
\* all of them; a descriptor is in the submit queue exactly between its
\* submit and its get_packet and in the acknowledgement queue exactly between
\* its acknowledge and its get_acked_packet, hence never in both and never in
\* the acknowledgement queue before the sink has taken it from the submit
\* queue; the queues hold nothing but such descriptors, each once.
C17_Lifecycle ==
    /\ [](/\ \A d \in DOMAIN life :
                LET n == Len(life[d].events)
                    inSubmit == {i \in DOMAIN QueueContents : QueueContents[i] = d}
                    inAck == {i \in DOMAIN AckContents : AckContents[i] = d}
                IN  /\ n <= Len(Lifecycle)
                    /\ life[d].events = SubSeq(Lifecycle, 1, n)
                    /\ ~(inSubmit # {} /\ inAck # {})
                    /\ Cardinality(inSubmit) <= 1 /\ Cardinality(inAck) <= 1
                    /\ d \in src_held <=> n = 1
                    /\ inSubmit # {} <=> n = 2
                    /\ d \in sink_held <=> n = 3
                    /\ inAck # {} <=> n = 4
                    /\ d \in src_acked <=> n = 5
          /\ \A i \in DOMAIN QueueContents : QueueContents[i] \in DOMAIN life
          /\ \A i \in DOMAIN AckContents : AckContents[i] \in DOMAIN life)
    /\ [][\A d \in DOMAIN life :
            release_packet(d) => life[d].events = Lifecycle]_vars

\* one packet waits in the acknowledgement queue, which has wrapped, while
\* another waits in the submit queue
C17_Witness ==
    /\ Len(QueueContents) = 1 /\ Len(AckContents) = 1
    /\ QueueContents[1] # AckContents[1]
    /\ ack_head < ack_tail

\* C18: no call of the sink (get_packet, try_get_packet, peek_packet,
\* packet_content, acknowledge_packet, try_ack_packet, wakeup) changes the
\* blocks the source's allocator has handed out, and the range of every
\* descriptor alloc_packet has returned stays allocated until the source
\* releases it.
C18_SinkLeavesAllocation ==
    /\ [](\A d \in outstanding : d \in packet_alloc)
    /\ [][(\/ get_packet
           \/ try_get_packet
           \/ peek_packet
           \/ \E d \in sink_held : sink_packet_content(d)
           \/ \E d \in sink_held : acknowledge_packet(d)
           \/ \E d \in sink_held : try_ack_packet(d)
           \/ sink_wakeup) => UNCHANGED <<packet_alloc, outstanding>>]_vars

\* two blocks handed out, one packet acknowledged and waiting in the
\* acknowledgement queue with the wakeup of the source deferred, the other
\* held by the sink
C18_Witness ==
    /\ Cardinality(packet_alloc) = 2
    /\ Len(AckContents) = 1
    /\ ack_tx_wakeup_needed
    /\ sink_held # {}

\* C19: peek_packet returns the descriptor the next get_packet would return
\* when the submit queue is not empty, and a descriptor of size 0 when it is
\* empty, whatever has been submitted and received before.
C19_Peek ==
    s_ret.op = "peek_packet" =>
        IF empty(head, tail)
        THEN s_ret.packet[1].size = 0
        ELSE s_ret.packet = <<QueueContents[1]>>

\* C20: slots_free() never reports more than QUEUE_SIZE - 1 free slots, and
\* ready_to_submit(count) returns true only with count slots free (the sink
\* only frees more of them, so that count calls of try_submit_packet then
\* succeed), however the reads of _head and _tail interleave with the sink
\* taking packets.
C20_ReadyToSubmit ==
    (pop = "ready_to_submit" /\ ppc \in {"rts_ret", "idle"}) =>
        /\ sf_ret <= QUEUE_SIZE - 1
        /\ pret = "true" => rts_count + Count(head, tail) <= QUEUE_SIZE - 1

\* C21: with the peer taking no descriptor any more, a tx() that has not yet
\* added its descriptor and finds QUEUE_SIZE - 1 descriptors stored never
\* returns: whatever step is taken (also a wakeup by a signal left pending),
\* the call is still before its add, nothing has been returned, and _head,
\* _tail and the slots are as before.
C21_BlockedForever ==
    [][(/\ peer_stalled
        /\ pop = "tx" /\ ppc \in {"tx_full", "tx_wait", "add_full"}
        /\ full(head, tail))
          => /\ pop' = "tx" /\ ppc' \in {"tx_full", "tx_wait", "add_full"}
             /\ pret' = "none"
             /\ UNCHANGED <<head, tail, queue>>]_vars

\* the peer has stalled, tx() has been woken by a signal left pending, has
\* found the queue still full and waits again, with no signal pending
C21_Witness ==
    /\ peer_stalled
    /\ pop = "tx" /\ ppc = "tx_wait"
    /\ p_obs.retried
    /\ ~tx_ready
    /\ full(head, tail)

\* C22: try_rx() on an empty queue returns the default descriptor and leaves
\* _head, _tail, the slots and _rx_wakeup_needed as they are, whatever the
\* number of slots; on a queue that is not empty it returns the oldest
\* descriptor and advances _tail by one.
C22_TryRxEmptyNoOp ==
    [][try_rx =>
          IF empty(head, tail)
          THEN /\ s_ret'.packet = <<DefaultDescriptor>>
               /\ UNCHANGED <<head, tail, queue, rx_wakeup_needed>>
          ELSE /\ s_ret'.packet = <<Head(fifo)>>
               /\ tail' = (tail + 1) % SubmitQueueSize
               /\ UNCHANGED <<head, queue>>]_vars

C24_Observers ==
    /\ [](LET n == SubmitQueueSize
              c == (head - tail + n) % n
          IN  /\ s_ret.op = "empty" => (s_ret.result = "true" <=> c = 0)
              /\ s_ret.op = "full" => (s_ret.result = "true" <=> c = n - 1)
              /\ s_ret.op = "single_element"
                     => (s_ret.result = "true" <=> c = 1)
              /\ s_ret.op = "single_slot_free"
                     => (s_ret.result = "true" <=> c = n - 2)
              /\ s_ret.op = "slots_free" => s_ret.content = <<n - 1 - c>>)
    /\ [][(\/ queue_empty \/ queue_full \/ queue_single_element
           \/ queue_single_slot_free \/ queue_slots_free)
              => UNCHANGED <<head, tail, queue>>]_vars

\* slots_free() has returned 1 for a queue of 4 slots whose _tail is above
\* its _head
C24_Witness ==
    /\ s_ret = Result("slots_free", "unsigned", << >>, <<1>>)
    /\ SubmitQueueSize = 4
    /\ tail > head

C26_SingleWriter ==
    /\ [][Consumer => UNCHANGED <<head, queue>>]_vars
    /\ [][Producer({Packet1}) => UNCHANGED tail]_vars
    /\ [][(head' # head \/ queue' # queue)
              => (pop \in {"tx", "try_tx"} /\ ppc \in {"add_write", "add_head"})]_vars
    /\ [][tail' # tail => (cop \in {"rx", "try_rx"} /\ cpc = "get_tail")]_vars

\* both sides are about to write their own counter, both counters having
\* wrapped before
C26_Witness ==
    /\ ppc = "add_head" /\ cpc = "get_tail"
    /\ head = 0 /\ tail = 2
    /\ queue[2] # DefaultDescriptor

\* C27: the source's constructor sets _head of the submit queue to 0, zeroes
\* its slots and sets _tail of the acknowledgement queue to 0, and leaves the
\* other members of both queues as they are; the sink's constructor does the
\* same with the queues exchanged. Over a zero-filled dataspace, whichever
\* endpoint is constructed first and whatever it has done before the second
\* one is constructed, a constructor leaves the descriptors stored in both
\* queues as they were, and at all times the queues store exactly the
\* descriptors submitted and not yet taken.
C27_RoleConstruction ==
    /\ [][construct_source =>
            /\ head' = 0 /\ queue' = EmptyQueue /\ tail' = tail
            /\ ack_tail' = 0 /\ ack_head' = ack_head /\ ack_queue' = ack_queue]_vars
    /\ [][construct_sink =>
            /\ tail' = 0 /\ head' = head /\ queue' = queue
            /\ ack_head' = 0 /\ ack_queue' = EmptyQueue /\ ack_tail' = ack_tail]_vars
    /\ [][(construct_source \/ construct_sink) =>
            /\ QueueContents' = QueueContents
            /\ AckContents' = AckContents]_vars
    /\ [](/\ fifo = QueueContents
          /\ \A d \in DOMAIN life :
                /\ (\E i \in DOMAIN QueueContents : QueueContents[i] = d)
                       <=> Len(life[d].events) = 2
                /\ (\E i \in DOMAIN AckContents : AckContents[i] = d)
                       <=> Len(life[d].events) = 4
          /\ \A i \in DOMAIN QueueContents : QueueContents[i] \in DOMAIN life
          /\ \A i \in DOMAIN AckContents : AckContents[i] \in DOMAIN life)

\* the sink has been constructed after the source had submitted two packets,
\* which the submit queue still stores
C27_Witness ==
    /\ s_ret.op = "Packet_stream_sink"
    /\ Len(s_ret.packet) = 2
    /\ QueueContents = s_ret.packet
    /\ built = {"source", "sink"}

\* C28: an endpoint constructed over a dataspace of S bytes, with queues of
\* A and B bytes, has _submit_queue_offset = 0, _ack_queue_offset = A,
\* _bulk_buffer_offset = the least multiple of 64 that is >= A + B, and
\* _bulk_buffer_size = S - _bulk_buffer_offset; the submit queue, the
\* acknowledgement queue and the bulk buffer follow each other without
\* overlap and end inside the dataspace; source and sink constructed with the
\* same policy have the same values.
C28_Layout ==
    /\ \A side \in Sides :
          stream[side].state = "constructed" =>
              LET A == QueueBytes(policy[side].submit)
                  B == QueueBytes(policy[side].ack)
                  S == ds_size
                  m == stream[side]
              IN  /\ m.submit_queue_offset = 0
                  /\ m.ack_queue_offset = A
                  /\ m.bulk_buffer_offset % 64 = 0
                  /\ m.bulk_buffer_offset >= A + B
                  /\ m.bulk_buffer_offset < A + B + 64
                  /\ m.bulk_buffer_size = S - m.bulk_buffer_offset
                  /\ m.submit_queue_offset + A <= m.ack_queue_offset
                  /\ m.ack_queue_offset + B <= m.bulk_buffer_offset
                  /\ m.bulk_buffer_size >= 1
                  /\ m.bulk_buffer_offset + m.bulk_buffer_size <= S
    /\ (/\ policy["source"] = policy["sink"]
        /\ \A side \in Sides : stream[side].state = "constructed")
           => stream["source"] = stream["sink"]

\* both endpoints constructed with the same policy, the queues ending at
\* byte 96 and the bulk buffer starting at byte 128
C28_Witness ==
    /\ policy["source"] = policy["sink"]
    /\ \A side \in Sides : stream[side].state = "constructed"
    /\ policy["source"] = [submit |-> 2, ack |-> 3]
    /\ stream["sink"].ack_queue_offset = 40
    /\ stream["sink"].bulk_buffer_offset = 128
    /\ stream["sink"].bulk_buffer_size = 65

\* C29: register_sigh_packet_avail makes the handler the context of the
\* submit queue's signal and submits a signal to it exactly when the queue
\* is not empty; before the registration no signal reaches the handler; once
\* it is registered, a signal is pending at the handler whenever the queue
\* stores descriptors and no wakeup is deferred.
C29_LateRegistration ==
    /\ [][register_sigh_packet_avail =>
            /\ rx_sigh'
            /\ IF empty(head, tail) THEN rx_ready' = rx_ready
                                    ELSE rx_ready' = TRUE]_vars
    /\ [](~rx_sigh => ~rx_ready)
    /\ []((rx_sigh /\ ~empty(head, tail) /\ ~tx_wakeup_needed) => rx_ready)

\* the handler has been registered with two descriptors in the queue, which
\* are still there, and no signal had reached it before
C29_Witness ==
    /\ s_ret.op = "register_sigh_packet_avail"
    /\ Len(s_ret.packet) = 2
    /\ QueueContents = s_ret.packet
    /\ rx_sigh /\ rx_ready
    /\ ~tx_wakeup_needed

\* C30: a call of Packet_stream_source::wakeup() submits at most one signal:
\* the submit queue's "packet available" when _tx_wakeup_needed of the submit
\* transmitter is set, else the acknowledgement queue's "ready to ack" when
\* _rx_wakeup_needed of the ack receiver is set, else none; with both set,
\* the receiver's deferred wakeup stays armed. Packet_stream_sink::wakeup()
\* does the same with _rx_wakeup_needed of the submit receiver first and
\* _tx_wakeup_needed of the ack transmitter second.
C30_OneSignal ==
    /\ [][source_wakeup =>
            /\ Len(s_ret'.content) <= 1
            /\ s_ret'.content =
                   IF tx_wakeup_needed THEN <<"rx_ready">>
                   ELSE IF ack_rx_wakeup_needed THEN <<"ack_tx_ready">>
                   ELSE << >>
            /\ ~tx_wakeup_needed'
            /\ ack_rx_wakeup_needed' = (tx_wakeup_needed /\ ack_rx_wakeup_needed)
            /\ (rx_ready' # rx_ready => ack_tx_ready' = ack_tx_ready)]_vars
    /\ [][sink_wakeup =>
            /\ Len(s_ret'.content) <= 1
            /\ s_ret'.content =
                   IF rx_wakeup_needed THEN <<"tx_ready">>
                   ELSE IF ack_tx_wakeup_needed THEN <<"ack_rx_ready">>
                   ELSE << >>
            /\ ~rx_wakeup_needed'
            /\ ack_tx_wakeup_needed' = (rx_wakeup_needed /\ ack_tx_wakeup_needed)
            /\ (tx_ready' # tx_ready => ack_rx_ready' = ack_rx_ready)]_vars

\* the source has called wakeup() with both of its deferred wakeups armed:
\* one signal was submitted and the ack receiver's wakeup is still armed
C30_Witness ==
    /\ s_ret.op = "source_wakeup"
    /\ s_ret.content = <<"rx_ready">>
    /\ ack_rx_wakeup_needed
    /\ ~tx_wakeup_needed

\* C31: after a call of Packet_stream_source::wakeup() neither
\* _tx_wakeup_needed of the submit transmitter nor _rx_wakeup_needed of the
\* ack receiver is set, and a wakeup() that follows it with no call in
\* between submits no signal; the same for Packet_stream_sink::wakeup() with
\* _rx_wakeup_needed of the submit receiver and _tx_wakeup_needed of the ack
\* transmitter.
C31_WakeupDeliversAll ==
    /\ [][source_wakeup => (~tx_wakeup_needed' /\ ~ack_rx_wakeup_needed')]_vars
    /\ [][sink_wakeup => (~rx_wakeup_needed' /\ ~ack_tx_wakeup_needed')]_vars
    /\ [][(s_ret.op = "source_wakeup" /\ source_wakeup)
              => s_ret'.content = << >>]_vars
    /\ [][(s_ret.op = "sink_wakeup" /\ sink_wakeup)
              => s_ret'.content = << >>]_vars

\* C32: whenever the receiver is suspended in rx(), waiting for the "data
\* available" signal, and the transmitter is not inside a call of tx(), the
\* queue is empty or the signal is pending.
C32_NoLostWakeup ==
    (cpc = "rx_wait" /\ ppc = "idle") => (empty(head, tail) \/ rx_ready)

\* the receiver is suspended with a signal pending and two descriptors
\* stored, the transmitter having returned from its second tx()
C32_Witness ==
    /\ cpc = "rx_wait" /\ ppc = "idle"
    /\ Count(head, tail) = 2
    /\ rx_ready
    /\ rx_sigh

\* C33: with both threads running whenever they can and each calling again
\* after it has returned, every call of tx() returns, also one that has
\* found the queue full and suspended, and every call of rx() returns, also
\* one that has found the queue empty and suspended.
C33_FlowControlLiveness ==
    /\ (ppc # "idle") ~> (ppc = "idle")
    /\ (cpc # "idle") ~> (cpc = "idle")

\* the transmitter is suspended on a full queue with no signal pending, the
\* receiver, between its get() and its look at single_slot_free(), is about
\* to find the queue full again and to submit nothing
C33_Witness ==
    /\ pop = "tx" /\ ppc = "tx_wait"
    /\ full(head, tail) /\ ~tx_ready
    /\ cop = "rx" /\ cpc = "rx_ssf"

\* C34: the source is never suspended in submit_packet on a full submit
\* queue, with no signal pending for it, while the sink is suspended in
\* acknowledge_packet on a full acknowledgement queue, with no signal
\* pending for it.
C34_NoMutualDeadlock ==
    ~(/\ waiting["source"].op = "submit_packet"
      /\ full(head, tail) /\ ~tx_ready
      /\ waiting["sink"].op = "acknowledge_packet"
      /\ full(ack_head, ack_tail) /\ ~ack_tx_ready)

\* C35: with the members of a descriptor written and read one by one, in
\* every interleaving of the accesses of add() and get(): the descriptor a
\* get() has read when it advances _tail is the oldest one added and not yet
\* taken, with both members as its add() wrote them; the slots _tail and
\* _head delimit hold the descriptors added and not yet taken; and a write
\* of add() never goes to one of these slots, the one the consumer is
\* reading included.
C35_PublicationOrder ==
    /\ [](fifo = QueueContents)
    /\ [][tail' # tail => (fifo # << >> /\ cpkt = Head(fifo)
                              /\ cret' = Returned(Head(fifo)))]_vars
    /\ [][queue' # queue =>
            \A k \in 0 .. (Count(head, tail) - 1) :
                (tail + k) % QUEUE_SIZE # p_obs.head0 % QUEUE_SIZE]_vars
    /\ []((ppc \in {"add_1", "add_2"} /\ cpc \in {"get_1", "get_2"})
             => head % QUEUE_SIZE # tail % QUEUE_SIZE)

\* the producer is between its two writes into a slot it has used before,
\* the consumer between its two reads of the neighbouring slot
C35_Witness ==
    /\ ppc = "add_2" /\ cpc = "get_2"
    /\ queue[head % QUEUE_SIZE].offset = ppkt.offset
    /\ queue[head % QUEUE_SIZE].size # ppkt.size
    /\ queue[head % QUEUE_SIZE].size # 0
    /\ cpkt.offset # ppkt.offset

\* C36: every descriptor of non-zero size that alloc_packet has returned and
\* that is not yet released lies within the bulk buffer, its offset counted
\* from the start of the dataspace, and is accepted by packet_valid and by
\* packet_content of the source and of the sink, which have the same
\* _bulk_buffer_offset and _bulk_buffer_size and their own local addresses.
C36_AllocatedIsValid ==
    \A d \in outstanding :
        d.size > 0 =>
            /\ d.offset >= bulk_buffer_offset
            /\ d.offset + d.size <= bulk_buffer_offset + bulk_buffer_size
            /\ packet_valid(d, bulk_buffer_offset, bulk_buffer_size)
            /\ \A side \in Sides :
                  LET r == packet_content(d, bulk_buffer_offset,
                                          bulk_buffer_size, AttachedAt[side])
                  IN  /\ r.kind = "pointer"
                      /\ r.ptr = AttachedAt[side] + d.offset

\* two packets are allocated, one of them ending with the bulk buffer
C36_Witness ==
    /\ s_ret.op = "alloc_packet" /\ s_ret.result = "ok"
    /\ \E d \in outstanding :
          /\ d.size = 2
          /\ d.offset + d.size = bulk_buffer_offset + bulk_buffer_size
    /\ \E d \in outstanding : d.size = 1 /\ d.offset = bulk_buffer_offset

\* C37: alloc_packet(0) succeeds, also with the bulk buffer used up, hands
\* out Packet_descriptor(0, 0) and leaves the allocator's blocks as they are;
\* release_packet of a descriptor of size 0 leaves them as they are;
\* packet_content of such a descriptor is a null pointer on both sides, not
\* Invalid_packet; submit_packet, get_packet, acknowledge_packet and
\* get_acked_packet pass it on like any other descriptor.
C37_ZeroSize ==
    /\ [][alloc_packet(0) =>
            /\ s_ret'.result = "ok"
            /\ src_held' = src_held \cup {DefaultDescriptor}
            /\ packet_alloc' = packet_alloc]_vars
    /\ [][\A d \in src_held \cup src_acked :
            (d.size = 0 /\ release_packet(d)) => packet_alloc' = packet_alloc]_vars
    /\ [](\A side \in Sides :
            packet_content(DefaultDescriptor, bulk_buffer_offset,
                           bulk_buffer_size, AttachedAt[side])
                = [kind |-> "nullptr", ptr |-> 0])
    /\ []((s_ret.op = "sink_packet_content" /\ s_ret.packet[1].size = 0)
             => s_ret.result = "nullptr")
    /\ [](fifo = QueueContents)
    /\ [][(submit_packet(DefaultDescriptor) /\ ~full(head, tail))
              => QueueContents' = Append(QueueContents, DefaultDescriptor)]_vars
    /\ [][(get_packet /\ QueueContents[1] = DefaultDescriptor)
              => DefaultDescriptor \in sink_held']_vars
    /\ [][acknowledge_packet(DefaultDescriptor)
              => AckContents' = Append(AckContents, DefaultDescriptor)]_vars
    /\ [][(get_acked_packet /\ AckContents[1] = DefaultDescriptor)
              => DefaultDescriptor \in src_acked']_vars

\* a packet of size 0 has been released and is allocated again while the
\* packet that uses up the bulk buffer waits in the acknowledgement queue
C37_Witness ==
    /\ s_ret.op = "alloc_packet" /\ s_ret.result = "ok"
    /\ packet_alloc = {Descriptor(SessionBulkOffset, SessionBulkSize)}
    /\ AckContents = <<Descriptor(SessionBulkOffset, SessionBulkSize)>>
    /\ DefaultDescriptor \in src_held
    /\ DefaultDescriptor \in released

\* C38: an endpoint whose construction has failed with
\* Transport_dataspace_too_small has no attachment of the dataspace left in
\* its region map; a constructed endpoint has exactly one, and none after
\* its destruction.
C38_NoResidue ==
    \A side \in Sides :
        /\ stream[side].state = "Transport_dataspace_too_small"
               => stream[side].attached = 0
        /\ stream[side].state = "constructed" => stream[side].attached = 1
        /\ stream[side].state = "destroyed" => stream[side].attached = 0

====
